---- MODULE Spec2Model ----
(***************************************************************************)
(* ETH options monitor: expiry parsing, cohort statistics, anomaly         *)
(* scoring (live, backtest and historical scorers), the alert cooldown     *)
(* state and the monitoring cycle that drives them.                        *)
(*                                                                         *)
(* Numbers.  A JS double is held as a fixed-point integer counting         *)
(* thousandths (1.5 is 1500).  Instants are whole minutes since the Unix   *)
(* epoch (the model clock's resolution; the program's Date.now() counts    *)
(* milliseconds).  JS null, NaN and undefined are tagged records.          *)
(***************************************************************************)
EXTENDS Integers, Sequences, FiniteSets, TLC

VARIABLES
  now,                 \* Date.now(), in minutes
  env,                 \* process.env: ALERT_COOLDOWN_HOURS, RECIPIENT_EMAIL
  OPTIMAL_THRESHOLDS,  \* advancedMonitor.js module-level thresholds
  monitorStatus,       \* state.monitorStatus
  alertHistory,        \* state.alertHistory
  lastAlertTime,       \* state.lastAlertTime: cohort key -> instant
  cycles,              \* the monitorOptionsAdvanced invocations in progress
  runs,                \* monitoring passes started so far
  initialFired,        \* the 10 s setTimeout has fired
  delivered,           \* the alert emails the mail service accepted
  gate,                \* per cohort, shouldSendAlert's last answer, its
                       \* instant and the number of calls since the cohort's
                       \* last recordAlertSent
  scoreIn,             \* the snapshot and weights handed to the scorers
  scoreOut,            \* what the scorer last applied to scoreIn returned
  backtester,          \* the Backtester instance
  backtestOut,         \* what the last call on the Backtester returned
  thrown,              \* the error messages monitoring passes have thrown to
                       \* their callers
  stateOut             \* what the last call of state.js's history API returned

vars == <<now, env, OPTIMAL_THRESHOLDS, monitorStatus, alertHistory,
          lastAlertTime, cycles, runs, initialFired, delivered, gate,
          scoreIn, scoreOut, backtester, backtestOut, thrown, stateOut>>

-----------------------------------------------------------------------------
(* JS values *)

Scale == 10 * 10 * 10

JsNull == [tag |-> "null"]
JsNaN == [tag |-> "NaN"]
JsUndefined == [tag |-> "undefined"]
Num(v) == [tag |-> "num", v |-> v]

\* !x for a value that is null, NaN, undefined or a number
IsFalsy(x) == x.tag # "num" \/ x.v = 0

Abs(x) == IF x < 0 THEN -x ELSE x
Max(a, b) == IF a >= b THEN a ELSE b
Min(a, b) == IF a <= b THEN a ELSE b

\* a * b and a / b on thousandths; the quotient is truncated toward zero
Mul(a, b) == IF (a < 0) = (b < 0) THEN (Abs(a) * Abs(b)) \div Scale
             ELSE -((Abs(a) * Abs(b)) \div Scale)
Div(a, b) == IF (a < 0) = (b < 0) THEN (Abs(a) * Scale) \div Abs(b)
             ELSE -((Abs(a) * Scale) \div Abs(b))

RECURSIVE ISqrtIn(_, _, _)
ISqrtIn(n, lo, hi) ==
  IF lo >= hi THEN lo
  ELSE LET mid == (lo + hi + 1) \div 2
       IN IF mid * mid <= n THEN ISqrtIn(n, mid, hi) ELSE ISqrtIn(n, lo, mid - 1)

\* Math.sqrt on thousandths
Sqrt(a) == ISqrtIn(a * Scale, 0, 46340)

\* Number.prototype.toFixed(digits), digits in 0..3: the decimal string is held
\* as the number it spells, rounded half away from zero
ToFixed(x, digits) ==
  LET unit == IF digits = 0 THEN Scale
              ELSE IF digits = 1 THEN Scale \div 10
              ELSE IF digits = 2 THEN Scale \div 100 ELSE 1
      r == ((2 * Abs(x) + unit) \div (2 * unit)) * unit
  IN IF x < 0 THEN -r ELSE r

RECURSIVE SeqSum(_)
SeqSum(s) == IF s = <<>> THEN 0 ELSE Head(s) + SeqSum(Tail(s))

\* an insertion that puts an item before the items of equal key
RECURSIVE InsertDescBeforeEqual(_, _)
InsertDescBeforeEqual(sorted, a) ==
  IF sorted = <<>> THEN <<a>>
  ELSE IF Head(sorted)[1] > a[1]
       THEN <<Head(sorted)>> \o InsertDescBeforeEqual(Tail(sorted), a)
       ELSE <<a>> \o sorted

\* Array.prototype.sort with comparator (a, b) => key(b) - key(a), on a
\* sequence of <<key, item>> pairs: stable, descending by key
RECURSIVE InsertDesc(_, _)
InsertDesc(sorted, a) ==
  IF sorted = <<>> THEN <<a>>
  ELSE IF Head(sorted)[1] >= a[1]
       THEN <<Head(sorted)>> \o InsertDesc(Tail(sorted), a)
       ELSE <<a>> \o sorted

RECURSIVE SortDesc(_)
SortDesc(s) ==
  IF s = <<>> THEN <<>>
  ELSE InsertDesc(SortDesc(SubSeq(s, 1, Len(s) - 1)), s[Len(s)])

\* a sort that puts pairs of equal key in reverse order
PlaceDescReversingTies(pairs, i) ==
  1 + Cardinality({ j \in DOMAIN pairs :
                      \/ pairs[j][1] > pairs[i][1]
                      \/ pairs[j][1] = pairs[i][1] /\ j > i })

\* where the stable descending sort puts pairs[i]: after the pairs of greater
\* key and after the earlier pairs of equal key
PlaceDesc(pairs, i) ==
  1 + Cardinality({ j \in DOMAIN pairs :
                      \/ pairs[j][1] > pairs[i][1]
                      \/ pairs[j][1] = pairs[i][1] /\ j < i })

\* the same sort for long arrays, each pair put at its place
SortDescByPlace(pairs) ==
  CHOOSE sorted \in
    { [p \in DOMAIN pairs |->
         pairs[CHOOSE i \in DOMAIN pairs : places[i] = p]] :
        places \in { [i \in DOMAIN pairs |-> PlaceDesc(pairs, i)] } } : TRUE

-----------------------------------------------------------------------------
(* dataCollector.js: parseExpiryTimestamp.  A symbol is the sequence of its  *)
(* hyphen-delimited parts (the result of split('-')), each part a sequence   *)
(* of one-character strings.                                                 *)

MinutesPerHour == 60
MinutesPerDay == 24 * MinutesPerHour
ExpiryHourUTC == 8

DigitChars == {"0", "1", "2", "3", "4", "5", "6", "7", "8", "9"}

DigitVal(c) ==
  CASE c = "0" -> 0 [] c = "1" -> 1 [] c = "2" -> 2 [] c = "3" -> 3
    [] c = "4" -> 4 [] c = "5" -> 5 [] c = "6" -> 6 [] c = "7" -> 7
    [] c = "8" -> 8 [] c = "9" -> 9

\* String.prototype.slice(a, b)
JsSlice(s, a, b) ==
  LET n == Len(s)
      from == IF a < 0 THEN Max(n + a, 0) ELSE Min(a, n)
      to == IF b < 0 THEN Max(n + b, 0) ELSE Min(b, n)
  IN IF from >= to THEN <<>> ELSE SubSeq(s, from + 1, to)

RECURSIVE DigitsValue(_, _)
DigitsValue(s, acc) ==
  IF s = <<>> \/ Head(s) \notin DigitChars THEN acc
  ELSE DigitsValue(Tail(s), 10 * acc + DigitVal(Head(s)))

\* parseInt on a string of digits and letters: the leading digits, else NaN
ParseInt(s) ==
  IF s = <<>> \/ Head(s) \notin DigitChars THEN JsNaN
  ELSE Num(DigitsValue(s, 0))

MonthNames ==
  << <<"J","A","N">>, <<"F","E","B">>, <<"M","A","R">>, <<"A","P","R">>,
     <<"M","A","Y">>, <<"J","U","N">>, <<"J","U","L">>, <<"A","U","G">>,
     <<"S","E","P">>, <<"O","C","T">>, <<"N","O","V">>, <<"D","E","C">> >>

\* a lookup that falls back to January
monthMapOrJanuary(monthStr) ==
  IF \E i \in 1..12 : MonthNames[i] = monthStr
  THEN Num((CHOOSE i \in 1..12 : MonthNames[i] = monthStr) - 1)
  ELSE Num(0)

\* monthMap[monthStr]: the 0-based month, or undefined
monthMap(monthStr) ==
  IF \E i \in 1..12 : MonthNames[i] = monthStr
  THEN Num((CHOOSE i \in 1..12 : MonthNames[i] = monthStr) - 1)
  ELSE JsUndefined

\* days from 1970-01-01 to the first of month m (1..12) of year y
DaysFromCivil(y, m, d) ==
  LET yy == IF m <= 2 THEN y - 1 ELSE y
      era == yy \div 400
      yoe == yy - era * 400
      mp == IF m > 2 THEN m - 3 ELSE m + 9
      doy == (153 * mp + 2) \div 5 + d - 1
      doe == yoe * 365 + yoe \div 4 - yoe \div 100 + doy
  IN era * 146097 + doe - 719468

\* the calendar date <<y, m, d>> of a day count
CivilFromDays(days) ==
  LET z == days + 719468
      era == z \div 146097
      doe == z - era * 146097
      yoe == (doe - doe \div 1460 + doe \div 36524 - doe \div 146096) \div 365
      doy == doe - (365 * yoe + yoe \div 4 - yoe \div 100)
      mp == (5 * doy + 2) \div 153
      d == doy - (153 * mp + 2) \div 5 + 1
      m == IF mp < 10 THEN mp + 3 ELSE mp - 9
      y == yoe + era * 400
  IN << IF m <= 2 THEN y + 1 ELSE y, m, d >>

\* Date.UTC(year, month, day, hour, 0, 0) with a 0-based month in 0..11; a day
\* outside the month rolls over
DateUTC(year, month, day, hour) ==
  (DaysFromCivil(year, month + 1, 1) + day - 1) * MinutesPerDay
    + hour * MinutesPerHour

parseExpiryTimestamp(instrumentName) ==
  IF Len(instrumentName) < 2 THEN JsNull
  ELSE LET expiryStr == instrumentName[2]
           day == ParseInt(JsSlice(expiryStr, 0, -5))
           monthStr == JsSlice(expiryStr, -5, -2)
           yr == ParseInt(JsSlice(expiryStr, -2, Len(expiryStr)))
           month == monthMap(monthStr)
       IN IF month = JsUndefined THEN JsNull
          ELSE IF day = JsNaN \/ yr = JsNaN THEN JsNaN
          ELSE Num(DateUTC(2000 + yr.v, month.v, day.v, ExpiryHourUTC))

\* new Date(ts).toISOString().split('T')[0]: the UTC calendar date, held as
\* <<year, month, day>>
ISODate(ts) == CivilFromDays(ts \div MinutesPerDay)

\* getTimeToExpiry: hours to expiry, floored at zero
getTimeToExpiry(instrumentName, currentTimestamp) ==
  LET expiryTimestamp == parseExpiryTimestamp(instrumentName)
  IN IF IsFalsy(expiryTimestamp) THEN JsNull
     ELSE Num(Max(0, ((expiryTimestamp.v - currentTimestamp) * Scale)
                       \div MinutesPerHour))

-----------------------------------------------------------------------------
(* Cohort statistics.  expiryGroups (a JS object with insertion-ordered      *)
(* keys) is a sequence of [expiry, opts]; expiryStats is a function on the   *)
(* cohort keys that have statistics.                                         *)

\* minutes as hours, in thousandths
HoursOf(minutes) ==
  IF minutes >= 0 THEN (minutes * Scale) \div MinutesPerHour
  ELSE -(((-minutes) * Scale) \div MinutesPerHour)

HasGroup(groups, key) == \E i \in 1..Len(groups) : groups[i].expiry = key

\* expiryGroups[key].push(item), creating the group on first use
PushToGroup(groups, key, item) ==
  IF HasGroup(groups, key)
  THEN [i \in 1..Len(groups) |->
          IF groups[i].expiry = key
          THEN [groups[i] EXCEPT !.opts = Append(@, item)]
          ELSE groups[i]]
  ELSE Append(groups, [expiry |-> key, opts |-> <<item>>])

\* the grouping without the upper end of the window
RECURSIVE GroupByExpiryFrom(_, _, _, _, _)
GroupByExpiryFrom(options, currentTime, minHours, maxHours, groups) ==
  IF options = <<>> THEN groups
  ELSE LET opt == Head(options)
           expiryTimestamp == parseExpiryTimestamp(opt.instrument_name)
       IN IF IsFalsy(expiryTimestamp)
          THEN GroupByExpiryFrom(Tail(options), currentTime, minHours,
                                 maxHours, groups)
          ELSE LET timeToExpiry == HoursOf(expiryTimestamp.v - currentTime)
               IN IF timeToExpiry < minHours
                  THEN GroupByExpiryFrom(Tail(options), currentTime, minHours,
                                         maxHours, groups)
                  ELSE GroupByExpiryFrom(Tail(options), currentTime, minHours,
                         maxHours,
                         PushToGroup(groups, ISODate(expiryTimestamp.v),
                           [instrument_name |-> opt.instrument_name,
                            mark_price |-> opt.mark_price,
                            volume_usd |-> opt.volume_usd,
                            open_interest |-> opt.open_interest,
                            timeToExpiry |-> timeToExpiry,
                            expiryTimestamp |-> expiryTimestamp.v]))

RECURSIVE GroupByExpiryWindow(_, _, _, _, _)
GroupByExpiryWindow(options, currentTime, minHours, maxHours, groups) ==
  IF options = <<>> THEN groups
  ELSE LET opt == Head(options)
           expiryTimestamp == parseExpiryTimestamp(opt.instrument_name)
       IN IF IsFalsy(expiryTimestamp)
          THEN GroupByExpiryWindow(Tail(options), currentTime, minHours,
                                   maxHours, groups)
          ELSE LET timeToExpiry == HoursOf(expiryTimestamp.v - currentTime)
               IN IF timeToExpiry < minHours \/ timeToExpiry > maxHours
                  THEN GroupByExpiryWindow(Tail(options), currentTime, minHours,
                                           maxHours, groups)
                  ELSE GroupByExpiryWindow(Tail(options), currentTime, minHours,
                         maxHours,
                         PushToGroup(groups, ISODate(expiryTimestamp.v),
                           [instrument_name |-> opt.instrument_name,
                            mark_price |-> opt.mark_price,
                            volume_usd |-> opt.volume_usd,
                            open_interest |-> opt.open_interest,
                            timeToExpiry |-> timeToExpiry,
                            expiryTimestamp |-> expiryTimestamp.v]))

\* values.reduce((a, b) => a + b, 0) / values.length
Average(values) == SeqSum(values) \div Len(values)

\* calculateStdDev(values, mean): population standard deviation
calculateStdDev(values, mean) ==
  IF Len(values) = 0 THEN 0
  ELSE LET squareDiffs == [i \in 1..Len(values) |->
                             Mul(values[i] - mean, values[i] - mean)]
           avgSquareDiff == SeqSum(squareDiffs) \div Len(values)
       IN Sqrt(avgSquareDiff)

IsPositive(x) == x > 0

PositiveOnly(values) == SelectSeq(values, IsPositive)

\* the statistics of one windowed cohort (the body of the forEach over
\* Object.entries(expiryGroups))
WindowedStats(opts) ==
  LET validPrices == PositiveOnly([i \in 1..Len(opts) |-> opts[i].mark_price])
      validVolumes == PositiveOnly([i \in 1..Len(opts) |-> opts[i].volume_usd])
      validOI == PositiveOnly([i \in 1..Len(opts) |-> opts[i].open_interest])
      avgPrice == Average(validPrices)
      avgVolume == IF Len(validVolumes) > 0 THEN Average(validVolumes) ELSE 0
      avgOI == IF Len(validOI) > 0 THEN Average(validOI) ELSE 0
  IN [avgPrice |-> avgPrice,
      avgVolume |-> avgVolume,
      avgOI |-> avgOI,
      stdPrice |-> calculateStdDev(validPrices, avgPrice),
      stdVolume |-> IF Len(validVolumes) > 0
                    THEN calculateStdDev(validVolumes, avgVolume) ELSE 0,
      stdOI |-> IF Len(validOI) > 0 THEN calculateStdDev(validOI, avgOI) ELSE 0,
      count |-> Len(opts)]

HasValidPrice(opts) == \E i \in 1..Len(opts) : opts[i].mark_price > 0

\* statistics for every cohort, zeros where no price is positive
StatsOfAllGroups(groups) ==
  [key \in {groups[i].expiry : i \in 1..Len(groups)} |->
     LET opts == groups[CHOOSE i \in 1..Len(groups) : groups[i].expiry = key].opts
     IN IF HasValidPrice(opts) THEN WindowedStats(opts)
        ELSE [avgPrice |-> 0, avgVolume |-> 0, avgOI |-> 0, stdPrice |-> 0,
              stdVolume |-> 0, stdOI |-> 0, count |-> Len(opts)]]

\* the cohorts with at least one strictly positive price get statistics
StatsOfGroups(groups) ==
  LET scored == {i \in 1..Len(groups) : HasValidPrice(groups[i].opts)}
  IN [key \in {groups[i].expiry : i \in scored} |->
        WindowedStats(groups[CHOOSE i \in scored : groups[i].expiry = key].opts)]

\* advancedMonitor.js calculateAdvancedStats
calculateAdvancedStats(options) ==
  LET expiryGroups == GroupByExpiryWindow(options, now,
                        OPTIMAL_THRESHOLDS.minTimeToExpiry,
                        OPTIMAL_THRESHOLDS.maxTimeToExpiry, <<>>)
  IN [expiryGroups |-> expiryGroups, expiryStats |-> StatsOfGroups(expiryGroups)]

\* historicalAnalysis calculateStats: the window is the literal 0.5-48 h
calculateStats(options, currentTime) ==
  LET expiryGroups == GroupByExpiryWindow(options, currentTime,
                        Scale \div 2, 48 * Scale, <<>>)
  IN [expiryGroups |-> expiryGroups, expiryStats |-> StatsOfGroups(expiryGroups)]

-----------------------------------------------------------------------------
(* The live scorer, advancedMonitor.js detectHighProbabilityAlerts.          *)

\* stats.std > 0 && value > 0 ? Math.abs((value - avg) / std) : 0
GuardedZScore(value, avg, std) ==
  IF std > 0 /\ value > 0 THEN Abs(Div(value - avg, std)) ELSE 0

\* stats.stdPrice > 0 ? Math.abs((price - avg) / std) : 0
PriceZScore(value, avg, std) ==
  IF std > 0 THEN Abs(Div(value - avg, std)) ELSE 0

\* the weights with their signs flipped
LiveWeightsNegated ==
  [priceWeight |-> -OPTIMAL_THRESHOLDS.priceWeight,
   volumeWeight |-> -OPTIMAL_THRESHOLDS.volumeWeight,
   oiWeight |-> -OPTIMAL_THRESHOLDS.oiWeight]

\* the weights the live scorer applies: it takes none as an argument and reads
\* the module-level OPTIMAL_THRESHOLDS
LiveWeights ==
  [priceWeight |-> OPTIMAL_THRESHOLDS.priceWeight,
   volumeWeight |-> OPTIMAL_THRESHOLDS.volumeWeight,
   oiWeight |-> OPTIMAL_THRESHOLDS.oiWeight]

\* the z-scores, time decay and composite score of one quote with
\* mark_price > 0
LiveScoreOf(opt, stats) ==
  LET priceZScore == PriceZScore(opt.mark_price, stats.avgPrice, stats.stdPrice)
      volumeZScore == GuardedZScore(opt.volume_usd, stats.avgVolume,
                                    stats.stdVolume)
      oiZScore == GuardedZScore(opt.open_interest, stats.avgOI, stats.stdOI)
      timeDecayFactor == Div(OPTIMAL_THRESHOLDS.maxTimeToExpiry - opt.timeToExpiry,
                             OPTIMAL_THRESHOLDS.maxTimeToExpiry)
  IN [symbol |-> opt.instrument_name,
      priceZScore |-> priceZScore,
      volumeZScore |-> volumeZScore,
      oiZScore |-> oiZScore,
      timeDecayFactor |-> timeDecayFactor,
      anomalyScore |-> Mul(priceZScore, LiveWeights.priceWeight)
                       + Mul(volumeZScore, LiveWeights.volumeWeight)
                       + Mul(oiZScore, LiveWeights.oiWeight)
                       + Mul(timeDecayFactor, 2 * Scale)]

\* the skip with < in place of <=
LiveSkipsBelowZero(opt) == opt.mark_price < 0

\* opt.mark_price <= 0: the quote is skipped
LiveSkips(opt) == opt.mark_price <= 0

\* the alert of one quote under the module-level thresholds, or <<>>
LiveAlertOf(expiry, opt, stats) ==
  IF LiveSkips(opt) THEN <<>>
  ELSE
    LET sc == LiveScoreOf(opt, stats)
        priceZScore == sc.priceZScore
        volumeZScore == sc.volumeZScore
        oiZScore == sc.oiZScore
        timeDecayFactor == sc.timeDecayFactor
        anomalyScore == sc.anomalyScore
    IN IF anomalyScore >= OPTIMAL_THRESHOLDS.anomalyScoreThreshold
       THEN << [symbol |-> opt.instrument_name,
                expiryDate |-> expiry,
                currentPrice |-> opt.mark_price,
                volume |-> opt.volume_usd,
                openInterest |-> opt.open_interest,
                timeToExpiry |-> ToFixed(opt.timeToExpiry, 1),
                anomalyScore |-> ToFixed(anomalyScore, 2),
                priceZScore |-> ToFixed(priceZScore, 2),
                volumeZScore |-> ToFixed(volumeZScore, 2),
                oiZScore |-> ToFixed(oiZScore, 2),
                timeDecayFactor |-> ToFixed(timeDecayFactor, 2),
                timestamp |-> now,
                type |-> IF priceZScore > volumeZScore
                         THEN "PRICE_ANOMALY" ELSE "VOLUME_ANOMALY"] >>
       ELSE <<>>

RECURSIVE LiveAlertsOfOpts(_, _, _)
LiveAlertsOfOpts(expiry, opts, stats) ==
  IF opts = <<>> THEN <<>>
  ELSE LiveAlertOf(expiry, Head(opts), stats)
         \o LiveAlertsOfOpts(expiry, Tail(opts), stats)

RECURSIVE LiveAlertsOfGroups(_, _)
LiveAlertsOfGroups(groups, expiryStats) ==
  IF groups = <<>> THEN <<>>
  ELSE (IF Head(groups).expiry \in DOMAIN expiryStats
        THEN LiveAlertsOfOpts(Head(groups).expiry, Head(groups).opts,
                              expiryStats[Head(groups).expiry])
        ELSE <<>>)
       \o LiveAlertsOfGroups(Tail(groups), expiryStats)

\* the pairs SortDesc sorts and the items it returns
KeyedByScore(alerts) == [i \in 1..Len(alerts) |-> <<alerts[i].anomalyScore, alerts[i]>>]
Items(pairs) == [i \in 1..Len(pairs) |-> pairs[i][2]]

detectHighProbabilityAlerts(expiryGroups, expiryStats) ==
  Items(SortDesc(KeyedByScore(LiveAlertsOfGroups(expiryGroups, expiryStats))))

-----------------------------------------------------------------------------
(* The historical scorer, historicalAnalysis detectAlerts: the live formulas *)
(* with literal weights 1.5 / 1.0 / 0.5, window 48 h and threshold 5.0.      *)

HistoricalScoreOf(opt, stats) ==
  LET priceZScore == PriceZScore(opt.mark_price, stats.avgPrice, stats.stdPrice)
      volumeZScore == GuardedZScore(opt.volume_usd, stats.avgVolume,
                                    stats.stdVolume)
      oiZScore == GuardedZScore(opt.open_interest, stats.avgOI, stats.stdOI)
      timeDecayFactor == Div(48 * Scale - opt.timeToExpiry, 48 * Scale)
  IN [symbol |-> opt.instrument_name,
      priceZScore |-> priceZScore,
      volumeZScore |-> volumeZScore,
      oiZScore |-> oiZScore,
      timeDecayFactor |-> timeDecayFactor,
      anomalyScore |-> Mul(priceZScore, (3 * Scale) \div 2)
                       + Mul(volumeZScore, Scale)
                       + Mul(oiZScore, Scale \div 2)
                       + Mul(timeDecayFactor, 2 * Scale)]

\* opt.mark_price <= 0: the quote is skipped
HistoricalSkips(opt) == opt.mark_price <= 0

HistoricalAlertOf(expiry, opt, stats) ==
  IF HistoricalSkips(opt) THEN <<>>
  ELSE
    LET sc == HistoricalScoreOf(opt, stats)
        priceZScore == sc.priceZScore
        volumeZScore == sc.volumeZScore
        oiZScore == sc.oiZScore
        timeDecayFactor == sc.timeDecayFactor
        anomalyScore == sc.anomalyScore
        isCall == opt.instrument_name[Len(opt.instrument_name)] = <<"C">>
        isPut == opt.instrument_name[Len(opt.instrument_name)] = <<"P">>
    IN IF anomalyScore >= 5 * Scale
       THEN << [symbol |-> opt.instrument_name,
                expiryDate |-> expiry,
                expiryTimestamp |-> opt.expiryTimestamp,
                currentPrice |-> opt.mark_price,
                volume |-> opt.volume_usd,
                timeToExpiry |-> opt.timeToExpiry,
                anomalyScore |-> anomalyScore,
                priceZScore |-> priceZScore,
                volumeZScore |-> volumeZScore,
                direction |-> IF isCall THEN "UP"
                              ELSE IF isPut THEN "DOWN" ELSE "UNKNOWN",
                isCall |-> isCall,
                isPut |-> isPut] >>
       ELSE <<>>

RECURSIVE HistoricalAlertsOfOpts(_, _, _)
HistoricalAlertsOfOpts(expiry, opts, stats) ==
  IF opts = <<>> THEN <<>>
  ELSE HistoricalAlertOf(expiry, Head(opts), stats)
         \o HistoricalAlertsOfOpts(expiry, Tail(opts), stats)

RECURSIVE HistoricalAlertsOfGroups(_, _)
HistoricalAlertsOfGroups(groups, expiryStats) ==
  IF groups = <<>> THEN <<>>
  ELSE (IF Head(groups).expiry \in DOMAIN expiryStats
        THEN HistoricalAlertsOfOpts(Head(groups).expiry, Head(groups).opts,
                                    expiryStats[Head(groups).expiry])
        ELSE <<>>)
       \o HistoricalAlertsOfGroups(Tail(groups), expiryStats)

detectAlerts(expiryGroups, expiryStats) ==
  Items(SortDesc(KeyedByScore(HistoricalAlertsOfGroups(expiryGroups, expiryStats))))

-----------------------------------------------------------------------------
(* backtester.js: Backtester.  A stored option is                            *)
(* [instrument, markPrice, volume, openInterest, timeToExpiry], as           *)
(* collectMarketSnapshot shapes it.                                          *)

\* dataCollector.js collectMarketSnapshot: the stored shape of the options
StoredOptions(options, at) ==
  [i \in 1..Len(options) |->
     [instrument |-> options[i].instrument_name,
      markPrice |-> options[i].mark_price,
      volume |-> options[i].volume_usd,
      openInterest |-> options[i].open_interest,
      timeToExpiry |-> getTimeToExpiry(options[i].instrument_name, at)]]

\* a data point's options as collectMarketSnapshot stores them
Collected == [tag |-> "collected"]

\* the options of a data point handed to addDataPoint: collected at `at`, or
\* supplied by the caller of runBacktestingAnalysis with the timeToExpiry it
\* chose
DataPointOptions(options, at, supplied) ==
  IF supplied = Collected THEN StoredOptions(options, at)
  ELSE [i \in 1..Len(options) |->
          [StoredOptions(options, at)[i] EXCEPT !.timeToExpiry = supplied]]

RECURSIVE GroupByExpiry(_, _)
GroupByExpiry(options, groups) ==
  IF options = <<>> THEN groups
  ELSE LET opt == Head(options)
           expiryTimestamp == parseExpiryTimestamp(opt.instrument)
       IN IF IsFalsy(expiryTimestamp)
          THEN GroupByExpiry(Tail(options), groups)
          ELSE GroupByExpiry(Tail(options),
                 PushToGroup(groups, ISODate(expiryTimestamp.v), opt))

\* Backtester.calculateStdDev(values): computes its own mean
BacktesterStdDev(values) ==
  IF Len(values) = 0 THEN 0
  ELSE LET avg == Average(values)
           squareDiffs == [i \in 1..Len(values) |->
                             Mul(values[i] - avg, values[i] - avg)]
           avgSquareDiff == SeqSum(squareDiffs) \div Len(values)
       IN Sqrt(avgSquareDiff)

\* one cohort's statistics in the Backtester: no stdOI is computed, so
\* reading stats.stdOI gives undefined
BacktesterStats(opts) ==
  LET validPrices == PositiveOnly([i \in 1..Len(opts) |-> opts[i].markPrice])
      validVolumes == PositiveOnly([i \in 1..Len(opts) |-> opts[i].volume])
      validOI == PositiveOnly([i \in 1..Len(opts) |-> opts[i].openInterest])
  IN [avgPrice |-> Average(validPrices),
      avgVolume |-> IF Len(validVolumes) > 0 THEN Average(validVolumes) ELSE 0,
      avgOI |-> IF Len(validOI) > 0 THEN Average(validOI) ELSE 0,
      stdPrice |-> BacktesterStdDev(validPrices),
      stdVolume |-> IF Len(validVolumes) > 0
                    THEN BacktesterStdDev(validVolumes) ELSE 0,
      stdOI |-> JsUndefined,
      count |-> Len(opts)]

HasValidMarkPrice(opts) == \E i \in 1..Len(opts) : opts[i].markPrice > 0

\* Backtester.calculateExpiryStats
calculateExpiryStats(options) ==
  LET groups == GroupByExpiry(options, <<>>)
      scored == {i \in 1..Len(groups) : HasValidMarkPrice(groups[i].opts)}
  IN [key \in {groups[i].expiry : i \in scored} |->
        BacktesterStats(groups[CHOOSE i \in scored : groups[i].expiry = key].opts)]

\* x || 1 on a number
OrOne(x) == IF x = 0 THEN Scale ELSE x

\* the z-scores (signed, as stored), time decay and composite score of one
\* stored option of a cohort with statistics
BacktestScoreOf(opt, stats, priceThreshold, volumeThreshold, oiThreshold) ==
  LET priceZScore == Div(opt.markPrice - stats.avgPrice, OrOne(stats.stdPrice))
      volumeZScore == IF stats.avgVolume > 0
                      THEN Div(opt.volume - stats.avgVolume,
                               OrOne(stats.stdVolume))
                      ELSE 0
      oiZScore == IF stats.avgOI > 0
                  THEN Div(opt.openInterest - stats.avgOI, Scale)
                  ELSE 0
      timeToExpiry == IF IsFalsy(opt.timeToExpiry) THEN 0
                      ELSE opt.timeToExpiry.v
      timeDecayFactor == IF timeToExpiry <= 48 * Scale
                         THEN Div(48 * Scale - timeToExpiry, 48 * Scale)
                         ELSE 0
  IN [instrument |-> opt.instrument,
      anomalyScore |-> Mul(Abs(priceZScore), priceThreshold)
                       + Mul(Abs(volumeZScore), volumeThreshold)
                       + Mul(Abs(oiZScore), oiThreshold)
                       + Mul(timeDecayFactor, 2 * Scale),
      priceZScore |-> priceZScore,
      volumeZScore |-> volumeZScore,
      oiZScore |-> oiZScore,
      timeToExpiry |-> timeToExpiry,
      timeDecayFactor |-> timeDecayFactor]

\* !stats || opt.markPrice <= 0: the option is skipped
BacktestSkips(opt, expiryStats, expiryKey) ==
  expiryKey \notin DOMAIN expiryStats \/ opt.markPrice <= 0

\* the decision with > in place of >=
AnomalyOfStrictlyAbove(opt, expiryStats, priceThreshold, volumeThreshold, oiThreshold) ==
  LET expiryTimestamp == parseExpiryTimestamp(opt.instrument)
  IN IF IsFalsy(expiryTimestamp) THEN <<>>
     ELSE
       LET expiryKey == ISODate(expiryTimestamp.v)
       IN IF BacktestSkips(opt, expiryStats, expiryKey) THEN <<>>
          ELSE
            LET sc == BacktestScoreOf(opt, expiryStats[expiryKey],
                        priceThreshold, volumeThreshold, oiThreshold)
            IN IF sc.anomalyScore > 5 * Scale THEN <<sc>> ELSE <<>>

\* the anomaly of one stored option under the given weights, or <<>>
AnomalyOf(opt, expiryStats, priceThreshold, volumeThreshold, oiThreshold) ==
  LET expiryTimestamp == parseExpiryTimestamp(opt.instrument)
  IN IF IsFalsy(expiryTimestamp) THEN <<>>
     ELSE
       LET expiryKey == ISODate(expiryTimestamp.v)
       IN IF BacktestSkips(opt, expiryStats, expiryKey) THEN <<>>
          ELSE
            LET sc == BacktestScoreOf(opt, expiryStats[expiryKey],
                        priceThreshold, volumeThreshold, oiThreshold)
            IN IF sc.anomalyScore >= 5 * Scale THEN <<sc>> ELSE <<>>

RECURSIVE AnomaliesOf(_, _, _, _, _)
AnomaliesOf(options, expiryStats, priceThreshold, volumeThreshold, oiThreshold) ==
  IF options = <<>> THEN <<>>
  ELSE AnomalyOf(Head(options), expiryStats, priceThreshold, volumeThreshold,
                 oiThreshold)
       \o AnomaliesOf(Tail(options), expiryStats, priceThreshold,
                      volumeThreshold, oiThreshold)

\* Backtester.detectAnomalies
detectAnomalies(options, expiryStats, priceThreshold, volumeThreshold, oiThreshold) ==
  Items(SortDesc(KeyedByScore(
    AnomaliesOf(options, expiryStats, priceThreshold, volumeThreshold,
                oiThreshold))))

\* new Backtester()
NewBacktester ==
  [historicalData |-> <<>>,
   results |-> [totalAlerts |-> 0, successfulPredictions |-> 0,
                falsePositives |-> 0, thresholdAnalysis |-> <<>>]]

NoBacktest == [call |-> "none"]

\* addDataPoint(snapshot, futureETHPrice): {...snapshot, futureETHPrice}
addDataPoint(bt, snapshot, futureETHPrice) ==
  [bt EXCEPT !.historicalData =
     Append(@, [timestamp |-> snapshot.timestamp,
                ethPrice |-> snapshot.ethPrice,
                options |-> snapshot.options,
                futureETHPrice |-> futureETHPrice])]

\* counters that start with one false positive counted
CountersOfOneAlert == [totalAlerts |-> 1, successful |-> 0, falsePositives |-> 1]

NoCounters == [totalAlerts |-> 0, successful |-> 0, falsePositives |-> 0]

\* Math.abs(((futureETHPrice - ethPrice) / ethPrice) * 100) >= 2.0
significantMove(futureETHPrice, ethPrice) ==
  Abs(Mul(Div(futureETHPrice - ethPrice, ethPrice), 100 * Scale)) >= 2 * Scale

\* the body of runBacktest's forEach: the counters after one data point
BacktestStep(counters, dataPoint, priceThreshold, volumeThreshold, oiThreshold) ==
  IF IsFalsy(dataPoint.futureETHPrice) THEN counters
  ELSE IF \E expiryStats \in {calculateExpiryStats(dataPoint.options)} :
            Len(detectAnomalies(dataPoint.options, expiryStats, priceThreshold,
                                volumeThreshold, oiThreshold)) > 0
       THEN IF significantMove(dataPoint.futureETHPrice.v, dataPoint.ethPrice.v)
            THEN [counters EXCEPT !.totalAlerts = @ + 1, !.successful = @ + 1]
            ELSE [counters EXCEPT !.totalAlerts = @ + 1,
                                  !.falsePositives = @ + 1]
       ELSE counters

\* the counters after the first n data points
RECURSIVE BacktestCounters(_, _, _, _, _)
BacktestCounters(historicalData, n, priceThreshold, volumeThreshold, oiThreshold) ==
  IF n = 0 THEN NoCounters
  ELSE BacktestStep(BacktestCounters(historicalData, n - 1, priceThreshold,
                                     volumeThreshold, oiThreshold),
                    historicalData[n], priceThreshold, volumeThreshold,
                    oiThreshold)

\* a result whose rates count the false positives
BacktestResultOfFalsePositives(c) ==
  LET ratio == Div(c.falsePositives * Scale, c.totalAlerts * Scale)
  IN [totalAlerts |-> c.totalAlerts,
      successful |-> c.successful,
      falsePositives |-> c.falsePositives,
      successRate |-> IF c.totalAlerts > 0 THEN Mul(ratio, 100 * Scale) ELSE 0,
      precision |-> IF c.totalAlerts > 0 THEN ratio ELSE 0]

\* what runBacktest returns for the counters its forEach leaves
BacktestResult(c) ==
  LET ratio == Div(c.successful * Scale, c.totalAlerts * Scale)
  IN [totalAlerts |-> c.totalAlerts,
      successful |-> c.successful,
      falsePositives |-> c.falsePositives,
      successRate |-> IF c.totalAlerts > 0 THEN Mul(ratio, 100 * Scale) ELSE 0,
      precision |-> IF c.totalAlerts > 0 THEN ratio ELSE 0]

\* Backtester.runBacktest: one pass over the data points, then the result
runBacktest(historicalData, priceThreshold, volumeThreshold, oiThreshold) ==
  CHOOSE result \in
    { BacktestResult(c) :
        c \in { BacktestCounters(historicalData, Len(historicalData),
                                 priceThreshold, volumeThreshold,
                                 oiThreshold) } } : TRUE

\* the combinations without the last open-interest candidate
GridPointsWithoutLastOi(priceThresholds, volumeThresholds, oiThresholds) ==
  LET nv == Len(volumeThresholds)
      no == Max(Len(oiThresholds) - 1, 0)
  IN [k \in 1..(Len(priceThresholds) * nv * no) |->
        [priceThreshold |-> priceThresholds[((k - 1) \div (nv * no)) + 1],
         volumeThreshold |-> volumeThresholds[(((k - 1) \div no) % nv) + 1],
         oiThreshold |-> oiThresholds[((k - 1) % no) + 1]]]

\* the combinations in the order of the three nested for loops: price
\* outermost, open interest innermost
GridPoints(priceThresholds, volumeThresholds, oiThresholds) ==
  LET nv == Len(volumeThresholds)
      no == Len(oiThresholds)
  IN [k \in 1..(Len(priceThresholds) * nv * no) |->
        [priceThreshold |-> priceThresholds[((k - 1) \div (nv * no)) + 1],
         volumeThreshold |-> volumeThresholds[(((k - 1) \div no) % nv) + 1],
         oiThreshold |-> oiThresholds[((k - 1) % no) + 1]]]

\* {priceThreshold, volumeThreshold, oiThreshold, ...result}
GridEntry(point, result) ==
  [priceThreshold |-> point.priceThreshold,
   volumeThreshold |-> point.volumeThreshold,
   oiThreshold |-> point.oiThreshold,
   totalAlerts |-> result.totalAlerts,
   successful |-> result.successful,
   falsePositives |-> result.falsePositives,
   successRate |-> result.successRate,
   precision |-> result.precision]

\* the entry pushed for one combination: one runBacktest call
GridResult(historicalData, point) ==
  CHOOSE entry \in
    { GridEntry(point, result) :
        result \in { runBacktest(historicalData, point.priceThreshold,
                                 point.volumeThreshold, point.oiThreshold) } } :
    TRUE

KeyedBySuccessRate(results) ==
  [i \in 1..Len(results) |-> <<results[i].successRate, results[i]>>]

\* the entries in the order the nested loops push them
GridResults(historicalData, points) ==
  [k \in 1..Len(points) |-> GridResult(historicalData, points[k])]

\* Backtester.testThresholds: the pushed entries, then the sort
testThresholds(historicalData, priceThresholds, volumeThresholds, oiThresholds) ==
  CHOOSE sorted \in
    { Items(SortDescByPlace(KeyedBySuccessRate(results))) :
        results \in { GridResults(historicalData,
                        GridPoints(priceThresholds, volumeThresholds,
                                   oiThresholds)) } } : TRUE

\* the candidate lists findOptimalThresholds hands to testThresholds
OptimizerPriceThresholds ==
  << Scale \div 2, Scale, (3 * Scale) \div 2, 2 * Scale, (5 * Scale) \div 2,
     3 * Scale >>
OptimizerVolumeThresholds ==
  << Scale \div 2, Scale, (3 * Scale) \div 2, 2 * Scale, (5 * Scale) \div 2 >>
OptimizerOiThresholds ==
  << (3 * Scale) \div 10, Scale \div 2, (7 * Scale) \div 10, Scale >>

\* Backtester.findOptimalThresholds: results[0] of the ranking
findOptimalThresholds(historicalData) ==
  Head(testThresholds(historicalData, OptimizerPriceThresholds,
                      OptimizerVolumeThresholds, OptimizerOiThresholds))

\* the recommendation with >= 50 read as > 50
generateRecommendationAboveHalf(optimal) ==
  IF optimal.successRate >= 70 * Scale
  THEN "EXCELLENT: High success rate. Deploy with confidence."
  ELSE IF optimal.successRate > 50 * Scale
  THEN "GOOD: Moderate success rate. Consider collecting more data."
  ELSE IF optimal.successRate >= 30 * Scale
  THEN "FAIR: Low success rate. Refine criteria or collect more data."
  ELSE "POOR: Very low success rate. Criteria need significant refinement."

\* Backtester.generateRecommendation
generateRecommendation(optimal) ==
  IF optimal.successRate >= 70 * Scale
  THEN "EXCELLENT: High success rate. Deploy with confidence."
  ELSE IF optimal.successRate >= 50 * Scale
  THEN "GOOD: Moderate success rate. Consider collecting more data."
  ELSE IF optimal.successRate >= 30 * Scale
  THEN "FAIR: Low success rate. Refine criteria or collect more data."
  ELSE "POOR: Very low success rate. Criteria need significant refinement."

\* the object generateReport builds around the winning combination
ReportOf(optimal, historicalData) ==
  [optimalThresholds |-> [price |-> optimal.priceThreshold,
                          volume |-> optimal.volumeThreshold,
                          openInterest |-> optimal.oiThreshold],
   performance |-> [successRate |-> optimal.successRate,
                    precision |-> optimal.precision,
                    totalAlerts |-> optimal.totalAlerts,
                    successful |-> optimal.successful,
                    falsePositives |-> optimal.falsePositives],
   dataPoints |-> Len(historicalData),
   recommendation |-> generateRecommendation(optimal)]

\* an instance whose data points a report has used up
BacktesterDrained(bt) == [bt EXCEPT !.historicalData = <<>>]

\* the instance after generateReport: testThresholds sorts its own results
\* array, and no method assigns to this.historicalData or this.results
BacktesterAfterReport(bt) == bt

\* Backtester.generateReport: one findOptimalThresholds call, then the object
generateReport(historicalData) ==
  CHOOSE report \in
    { ReportOf(optimal, historicalData) :
        optimal \in { findOptimalThresholds(historicalData) } } : TRUE

-----------------------------------------------------------------------------
(* The per-quote traces of the scorers: for every quote a scorer scores      *)
(* (does not skip), the quote, its cohort and the scores computed for it.    *)

RECURSIVE LiveScoredOfOpts(_, _, _)
LiveScoredOfOpts(expiry, opts, stats) ==
  IF opts = <<>> THEN <<>>
  ELSE (IF LiveSkips(Head(opts)) THEN <<>>
        ELSE << [opt |-> Head(opts), expiry |-> expiry,
                 score |-> LiveScoreOf(Head(opts), stats)] >>)
       \o LiveScoredOfOpts(expiry, Tail(opts), stats)

RECURSIVE LiveScored(_, _)
LiveScored(groups, expiryStats) ==
  IF groups = <<>> THEN <<>>
  ELSE (IF Head(groups).expiry \in DOMAIN expiryStats
        THEN LiveScoredOfOpts(Head(groups).expiry, Head(groups).opts,
                              expiryStats[Head(groups).expiry])
        ELSE <<>>)
       \o LiveScored(Tail(groups), expiryStats)

RECURSIVE HistoricalScoredOfOpts(_, _, _)
HistoricalScoredOfOpts(expiry, opts, stats) ==
  IF opts = <<>> THEN <<>>
  ELSE (IF HistoricalSkips(Head(opts)) THEN <<>>
        ELSE << [opt |-> Head(opts), expiry |-> expiry,
                 score |-> HistoricalScoreOf(Head(opts), stats)] >>)
       \o HistoricalScoredOfOpts(expiry, Tail(opts), stats)

RECURSIVE HistoricalScored(_, _)
HistoricalScored(groups, expiryStats) ==
  IF groups = <<>> THEN <<>>
  ELSE (IF Head(groups).expiry \in DOMAIN expiryStats
        THEN HistoricalScoredOfOpts(Head(groups).expiry, Head(groups).opts,
                                    expiryStats[Head(groups).expiry])
        ELSE <<>>)
       \o HistoricalScored(Tail(groups), expiryStats)

RECURSIVE BacktestScored(_, _, _, _, _)
BacktestScored(options, expiryStats, priceThreshold, volumeThreshold, oiThreshold) ==
  IF options = <<>> THEN <<>>
  ELSE LET opt == Head(options)
           expiryTimestamp == parseExpiryTimestamp(opt.instrument)
           rest == BacktestScored(Tail(options), expiryStats, priceThreshold,
                                  volumeThreshold, oiThreshold)
       IN IF IsFalsy(expiryTimestamp) THEN rest
          ELSE IF BacktestSkips(opt, expiryStats, ISODate(expiryTimestamp.v))
               THEN rest
               ELSE << [opt |-> opt, expiry |-> ISODate(expiryTimestamp.v),
                        score |-> BacktestScoreOf(opt,
                                    expiryStats[ISODate(expiryTimestamp.v)],
                                    priceThreshold, volumeThreshold,
                                    oiThreshold)] >> \o rest

-----------------------------------------------------------------------------
(* state.js: the cooldown gate and the alert history.                        *)

DefaultCooldownHours == 6
HistoryCap == 100
HistoryServed == 50

\* parseInt(process.env.ALERT_COOLDOWN_HOURS || '6'); the variable is unset
\* (undefined) or a decimal numeral, held as the number it spells
cooldownHours == IF env.ALERT_COOLDOWN_HOURS = JsUndefined THEN DefaultCooldownHours
                 ELSE env.ALERT_COOLDOWN_HOURS.v

\* the gate with > in place of >=
shouldSendAlertStrictlyAfter(lat, expiryDate) ==
  IF expiryDate \notin DOMAIN lat \/ lat[expiryDate] = 0 THEN TRUE
  ELSE HoursOf(now - lat[expiryDate]) > cooldownHours * Scale

\* the gate with the comparison turned round
shouldSendAlertWhileCooling(lat, expiryDate) ==
  IF expiryDate \notin DOMAIN lat \/ lat[expiryDate] = 0 THEN TRUE
  ELSE HoursOf(now - lat[expiryDate]) < cooldownHours * Scale

\* shouldSendAlert(expiryDate) on state.lastAlertTime = lat
shouldSendAlert(lat, expiryDate) ==
  IF expiryDate \notin DOMAIN lat \/ lat[expiryDate] = 0 THEN TRUE
  ELSE HoursOf(now - lat[expiryDate]) >= cooldownHours * Scale

\* state.lastAlertTime[expiryDate] = Date.now()
SetLastAlert(lat, expiryDate) ==
  [k \in DOMAIN lat \cup {expiryDate} |->
     IF k = expiryDate THEN now ELSE lat[k]]

\* a history that drops the entry just pushed once it is full
PushHistoryKeepingOldest(hist, expiryDate, alerts) ==
  LET pushed == Append(hist, [expiryDate |-> expiryDate,
                              alertCount |-> Len(alerts),
                              timestamp |-> now,
                              recipientEmail |-> env.RECIPIENT_EMAIL])
  IN IF Len(pushed) > HistoryCap THEN SubSeq(pushed, 1, HistoryCap) ELSE pushed

\* state.alertHistory.push({...}), then shift() beyond the last 100
PushHistory(hist, expiryDate, alerts) ==
  LET pushed == Append(hist, [expiryDate |-> expiryDate,
                              alertCount |-> Len(alerts),
                              timestamp |-> now,
                              recipientEmail |-> env.RECIPIENT_EMAIL])
  IN IF Len(pushed) > HistoryCap THEN Tail(pushed) ELSE pushed

\* getAlertHistory(): state.alertHistory.slice(-50)
getAlertHistory(hist) ==
  SubSeq(hist, Max(1, Len(hist) - HistoryServed + 1), Len(hist))

NoStateCall == [call |-> "none"]

\* a status update that is dropped
keepMonitorStatus(current, status) == current

\* a status update that puts the fields it is not given back to their
\* initial values
resetMonitorStatus(current, status) ==
  LET initial == [lastCheck |-> JsNull, optionsChecked |-> 0,
                  irregularitiesFound |-> 0, emailsSent |-> 0,
                  checkDuration |-> 0, error |-> JsNull]
  IN [k \in DOMAIN initial \cup DOMAIN status |->
        IF k \in DOMAIN status THEN status[k] ELSE initial[k]]

\* updateMonitorStatus(status): the given fields overwrite, the others stay
updateMonitorStatus(current, status) ==
  [k \in DOMAIN current \cup DOMAIN status |->
     IF k \in DOMAIN status THEN status[k] ELSE current[k]]

\* thresholds that are replaced by the new object as a whole
replaceThresholds(current, newThresholds) == newThresholds

\* updateThresholds(newThresholds) on the current thresholds
updateThresholds(current, newThresholds) ==
  [k \in DOMAIN current \cup DOMAIN newThresholds |->
     IF k \in DOMAIN newThresholds THEN newThresholds[k] ELSE current[k]]

DefaultThresholds ==
  [priceWeight |-> (3 * Scale) \div 2,
   volumeWeight |-> Scale,
   oiWeight |-> Scale \div 2,
   anomalyScoreThreshold |-> 5 * Scale,
   minTimeToExpiry |-> Scale \div 2,
   maxTimeToExpiry |-> 48 * Scale]

InitialMonitorStatus ==
  [lastCheck |-> JsNull,
   optionsChecked |-> 0,
   irregularitiesFound |-> 0,
   emailsSent |-> 0,
   checkDuration |-> 0,
   error |-> JsNull]

-----------------------------------------------------------------------------
(* The inputs of the monitoring model: what the market data feed may return  *)
(* and what the environment may hold.                                        *)

MaxCycles == 2      \* monitoring passes that may be in progress at once
MaxRuns == 3        \* monitoring passes started in one behaviour
MaxTicks == 1       \* clock steps in one behaviour

Cycles == 1..MaxCycles

\* one clock step: the default cooldown
TickMinutes == DefaultCooldownHours * MinutesPerHour

ETH == <<"E", "T", "H">>
Nov25(day) == <<day, "N", "O", "V", "2", "5">>
Strike3300 == <<"3", "3", "0", "0">>
Strike3400 == <<"3", "4", "0", "0">>
Call == <<"C">>
Put == <<"P">>

Quote(name, price, volume, oi) ==
  [instrument_name |-> name, mark_price |-> price * Scale,
   volume_usd |-> volume * Scale, open_interest |-> oi * Scale]

\* 2025-11-06T09:00Z: 23 h before the 7NOV25 expiry, 47 h before 8NOV25
StartInstant == DateUTC(2025, 10, 6, 9)

\* every quote at its cohort's mean: nothing to alert
SnapshotQuiet ==
  << Quote(<<ETH, Nov25("7"), Strike3300, Call>>, 2, 2, 2),
     Quote(<<ETH, Nov25("7"), Strike3300, Put>>, 2, 2, 2) >>

\* one outlier in each of two cohorts; the later cohort's outlier passes the
\* score threshold only under weights above the defaults
SnapshotAnomalous ==
  << Quote(<<ETH, Nov25("7"), Strike3300, Call>>, 2, 2, 2),
     Quote(<<ETH, Nov25("7"), Strike3300, Put>>, 2, 2, 2),
     Quote(<<ETH, Nov25("7"), Strike3400, Call>>, 6, 6, 6),
     Quote(<<ETH, Nov25("8"), Strike3300, Call>>, 2, 2, 2),
     Quote(<<ETH, Nov25("8"), Strike3300, Put>>, 2, 2, 0),
     Quote(<<ETH, Nov25("8"), Strike3400, Call>>, 6, 6, 6) >>

\* what the two fetches of one pass may return: the book summary, and the
\* index price (fetchETHPrice gives null when its request failed)
FeedResults ==
  { [options |-> SnapshotQuiet, ethPrice |-> JsNull],
    [options |-> SnapshotAnomalous, ethPrice |-> Num(3300 * Scale)] }

\* the winning weight vector a backtest may report: the last point of
\* findOptimalThresholds' grid
GridWinners ==
  { [priceWeight |-> 3 * Scale, volumeWeight |-> (5 * Scale) \div 2,
     oiWeight |-> Scale] }

PlaceholderEmail == "your.email@example.com"
OperatorEmail == "ops@example.com"

\* !recipientEmail || recipientEmail === 'your.email@example.com'
NotConfigured(recipientEmail) ==
  recipientEmail = "" \/ recipientEmail = PlaceholderEmail

-----------------------------------------------------------------------------
(* advancedMonitor.js monitorOptionsAdvanced.  A pass is cut at its awaits:  *)
(* the fetch of the market data, and each send of an alert email.            *)

IdleCycle == [pc |-> "idle"]

\* alertsByExpiry: the alerts grouped by expiryDate, keys in first-seen order
RECURSIVE GroupAlerts(_, _)
GroupAlerts(alerts, groups) ==
  IF alerts = <<>> THEN groups
  ELSE GroupAlerts(Tail(alerts),
                   PushToGroup(groups, Head(alerts).expiryDate, Head(alerts)))

\* the for loop from entry i on state.lastAlertTime = lat: the first entry
\* whose cohort passes the gate (its send is then awaited), or Len + 1
RECURSIVE NextSend(_, _, _)
NextSend(alertsByExpiry, i, lat) ==
  IF i > Len(alertsByExpiry) THEN i
  ELSE IF shouldSendAlert(lat, alertsByExpiry[i].expiry) THEN i
       ELSE NextSend(alertsByExpiry, i + 1, lat)

\* the gate's answers for the entries i..j the loop examined
GateAnswers(g, alertsByExpiry, i, j, lat) ==
  LET seen == {alertsByExpiry[k].expiry : k \in i..Min(j, Len(alertsByExpiry))}
  IN [e \in DOMAIN g \cup seen |->
        IF e \in seen
        THEN [answer |-> shouldSendAlert(lat, e), at |-> now,
              calls |-> IF e \in DOMAIN g THEN g[e].calls + 1 ELSE 1]
        ELSE g[e]]

\* recordAlertSent whatever the send returned
LastAlertAfterAnySend(lat, expiryDate, success) == SetLastAlert(lat, expiryDate)

\* if (success) recordAlertSent(expiry, expiryAlerts): state.lastAlertTime
\* after the send of the cohort's alerts has returned
LastAlertAfterSend(lat, expiryDate, success) ==
  IF success THEN SetLastAlert(lat, expiryDate) ELSE lat

\* the loop resumes at entry i with state.lastAlertTime = lat: it either
\* awaits the next send or runs to the end of the pass
ResumeLoop(c, cyc, i, lat, g) ==
  LET j == NextSend(cyc.alertsByExpiry, i, lat)
      g1 == GateAnswers(g, cyc.alertsByExpiry, i, j, lat)
  IN /\ gate' = g1
     /\ IF j <= Len(cyc.alertsByExpiry)
        THEN /\ cycles' = [cycles EXCEPT ![c] =
                  [cyc EXCEPT !.pc = "sending", !.idx = j,
                     !.sendOutcome = IF NotConfigured(env.RECIPIENT_EMAIL)
                                     THEN "notConfigured" ELSE "posted"]]
             /\ UNCHANGED monitorStatus
        ELSE /\ cycles' = [cycles EXCEPT ![c] = IdleCycle]
             /\ monitorStatus' = updateMonitorStatus(monitorStatus,
                  [lastCheck |-> Num(now),
                   optionsChecked |-> Len(cyc.options),
                   irregularitiesFound |-> Len(cyc.alerts),
                   emailsSent |-> cyc.emailsSent,
                   checkDuration |-> now - cyc.startTime,
                   ethPrice |-> cyc.ethPrice])

\* monitorOptionsAdvanced is called: up to the await of the two fetches
BeginCycle(c) ==
  /\ cycles[c].pc = "idle"
  /\ runs < MaxRuns
  /\ runs' = runs + 1
  /\ cycles' = [cycles EXCEPT ![c] = [pc |-> "fetching", startTime |-> now]]
  /\ UNCHANGED <<now, env, OPTIMAL_THRESHOLDS, monitorStatus, alertHistory,
                 lastAlertTime, delivered, gate, scoreIn, scoreOut, backtester, backtestOut,
                 thrown, stateOut>>

\* cron.schedule callback
StartCron(c) == BeginCycle(c) /\ UNCHANGED initialFired

\* the setTimeout(..., 10000) callback: once
StartInitial(c) == ~initialFired /\ BeginCycle(c) /\ initialFired' = TRUE

\* POST /api/trigger-check
StartManual(c) == BeginCycle(c) /\ UNCHANGED initialFired

\* both fetches returned: statistics, scoring, grouping, and the loop up to
\* its first awaited send
FetchOk(c, options, ethPrice) ==
  /\ cycles[c].pc = "fetching"
  /\ LET st == calculateAdvancedStats(options)
         alerts == detectHighProbabilityAlerts(st.expiryGroups, st.expiryStats)
         cyc == [pc |-> "scored",
                 startTime |-> cycles[c].startTime,
                 options |-> options,
                 ethPrice |-> ethPrice,
                 currentTime |-> now,
                 scored |-> LiveScored(st.expiryGroups, st.expiryStats),
                 alerts |-> alerts,
                 alertsByExpiry |-> GroupAlerts(alerts, <<>>),
                 idx |-> 0,
                 emailsSent |-> 0,
                 sendOutcome |-> "none"]
     IN ResumeLoop(c, cyc, 1, lastAlertTime, gate)
  /\ UNCHANGED <<now, env, OPTIMAL_THRESHOLDS, alertHistory, lastAlertTime,
                 runs, initialFired, delivered, scoreIn, scoreOut, backtester, backtestOut,
                 thrown, stateOut>>

\* fetchOptionsData threw: the catch block records the error and rethrows
FetchFail(c) ==
  /\ cycles[c].pc = "fetching"
  /\ monitorStatus' = updateMonitorStatus(monitorStatus,
       [lastCheck |-> Num(now),
        error |-> [tag |-> "str", v |-> "Deribit API error: 500"]])
  /\ thrown' = thrown \cup {"Deribit API error: 500"}
  /\ cycles' = [cycles EXCEPT ![c] = IdleCycle]
  /\ UNCHANGED <<now, env, OPTIMAL_THRESHOLDS, alertHistory, lastAlertTime,
                 runs, initialFired, delivered, gate, scoreIn, scoreOut,
                 backtester, backtestOut, stateOut>>

\* the awaited sendAdvancedAlertEmail returned success: recordAlertSent when
\* it succeeded, then the loop goes on
SendDone(c, success) ==
  /\ cycles[c].pc = "sending"
  /\ cycles[c].sendOutcome = "notConfigured" => ~success
  /\ LET cyc == cycles[c]
         entry == cyc.alertsByExpiry[cyc.idx]
         lat == LastAlertAfterSend(lastAlertTime, entry.expiry, success)
         g == IF success
              THEN [e \in DOMAIN gate \ {entry.expiry} |-> gate[e]]
              ELSE gate
     IN /\ lastAlertTime' = lat
        /\ alertHistory' = IF success
                           THEN PushHistory(alertHistory, entry.expiry, entry.opts)
                           ELSE alertHistory
        /\ delivered' = IF success
                        THEN Append(delivered, [expiry |-> entry.expiry, at |-> now])
                        ELSE delivered
        /\ ResumeLoop(c, [cyc EXCEPT !.emailsSent = IF success THEN @ + 1 ELSE @],
                      cyc.idx + 1, lat, g)
  /\ UNCHANGED <<now, env, OPTIMAL_THRESHOLDS, runs, initialFired, scoreIn,
                 scoreOut, backtester, backtestOut, thrown, stateOut>>

\* runBacktestingAnalysis found a winner with successRate >= 30
BacktestUpdatesThresholds(winner) ==
  /\ OPTIMAL_THRESHOLDS' = updateThresholds(OPTIMAL_THRESHOLDS, winner)
  /\ OPTIMAL_THRESHOLDS' # OPTIMAL_THRESHOLDS
  /\ UNCHANGED <<now, env, monitorStatus, alertHistory, lastAlertTime, cycles,
                 runs, initialFired, delivered, gate, scoreIn, scoreOut, backtester, backtestOut,
                 thrown, stateOut>>

\* POST /api/config/email with an address the pattern accepts
ConfigEmail(email) ==
  /\ env.RECIPIENT_EMAIL # email
  /\ env' = [env EXCEPT !.RECIPIENT_EMAIL = email]
  /\ UNCHANGED <<now, OPTIMAL_THRESHOLDS, monitorStatus, alertHistory,
                 lastAlertTime, cycles, runs, initialFired, delivered, gate,
                 scoreIn, scoreOut, backtester, backtestOut, thrown, stateOut>>

\* time passes
Tick ==
  /\ now < StartInstant + MaxTicks * TickMinutes
  /\ now' = now + TickMinutes
  /\ UNCHANGED <<env, OPTIMAL_THRESHOLDS, monitorStatus, alertHistory,
                 lastAlertTime, cycles, runs, initialFired, delivered, gate,
                 scoreIn, scoreOut, backtester, backtestOut, thrown, stateOut>>

NoScoring ==
  [options |-> <<>>,
   weights |-> [priceWeight |-> 0, volumeWeight |-> 0, oiWeight |-> 0],
   supplied |-> Collected]
NoScore == [scorer |-> "none"]

Init ==
  /\ now = StartInstant
  /\ env \in [ALERT_COOLDOWN_HOURS : {JsUndefined, Num(0)},
              RECIPIENT_EMAIL : {PlaceholderEmail}]
  /\ OPTIMAL_THRESHOLDS = DefaultThresholds
  /\ monitorStatus = InitialMonitorStatus
  /\ alertHistory = <<>>
  /\ lastAlertTime = <<>>
  /\ cycles = [c \in Cycles |-> IdleCycle]
  /\ runs = 0
  /\ initialFired = FALSE
  /\ delivered = <<>>
  /\ gate = <<>>
  /\ scoreIn = NoScoring
  /\ scoreOut = NoScore
  /\ backtester = NewBacktester
  /\ backtestOut = NoBacktest
  /\ thrown = {}
  /\ stateOut = NoStateCall

Next ==
  \/ \E c \in Cycles : StartCron(c)
  \/ \E c \in Cycles : StartInitial(c)
  \/ \E c \in Cycles : StartManual(c)
  \/ \E c \in Cycles, feed \in FeedResults :
       FetchOk(c, feed.options, feed.ethPrice)
  \/ \E c \in Cycles : FetchFail(c)
  \/ \E c \in Cycles, success \in BOOLEAN : SendDone(c, success)
  \/ \E winner \in GridWinners : BacktestUpdatesThresholds(winner)
  \/ ConfigEmail(OperatorEmail)
  \/ Tick

Spec == Init /\ [][Next]_vars

\* the passes of a deployment in which a pass has ended before the next
\* one is started
NoPassInProgress == \A c \in Cycles : cycles[c].pc = "idle"

SerialNext ==
  \/ \E c \in Cycles : NoPassInProgress /\ StartCron(c)
  \/ \E c \in Cycles : NoPassInProgress /\ StartInitial(c)
  \/ \E c \in Cycles : NoPassInProgress /\ StartManual(c)
  \/ \E c \in Cycles, feed \in FeedResults :
       FetchOk(c, feed.options, feed.ethPrice)
  \/ \E c \in Cycles : FetchFail(c)
  \/ \E c \in Cycles, success \in BOOLEAN : SendDone(c, success)
  \/ \E winner \in GridWinners : BacktestUpdatesThresholds(winner)
  \/ ConfigEmail(OperatorEmail)
  \/ Tick

SpecSerial == Init /\ [][SerialNext]_vars

-----------------------------------------------------------------------------
(* state.js called directly: recordAlertSent more often than the history     *)
(* holds entries, and getAlertHistory in between.                            *)

MaxRecords == 103   \* recordAlertSent calls in one behaviour

\* the alerts of one cohort, as a pass hands them to recordAlertSent
RecordedCohort == <<2025, 11, 7>>
RecordedAlerts == << SnapshotAnomalous[3] >>

\* recordAlertSent(expiryDate, alerts), one call a minute
RecordAlertSent(expiryDate, alerts) ==
  /\ Len(delivered) < MaxRecords
  /\ IF delivered = <<>> THEN TRUE ELSE delivered[Len(delivered)].at < now
  /\ lastAlertTime' = SetLastAlert(lastAlertTime, expiryDate)
  /\ alertHistory' = PushHistory(alertHistory, expiryDate, alerts)
  /\ delivered' = Append(delivered, [expiry |-> expiryDate, at |-> now])
  /\ stateOut' = [call |-> "recordAlertSent"]
  /\ UNCHANGED <<now, env, OPTIMAL_THRESHOLDS, monitorStatus, cycles, runs,
                 initialFired, gate, scoreIn, scoreOut, backtester,
                 backtestOut, thrown>>

\* getAlertHistory(), as GET /api/alerts calls it
GetAlertHistory ==
  /\ stateOut.call # "getAlertHistory"
  /\ stateOut' = [call |-> "getAlertHistory",
                  history |-> getAlertHistory(alertHistory)]
  /\ UNCHANGED <<now, env, OPTIMAL_THRESHOLDS, monitorStatus, alertHistory,
                 lastAlertTime, cycles, runs, initialFired, delivered, gate,
                 scoreIn, scoreOut, backtester, backtestOut, thrown>>

\* a minute passes after a call of recordAlertSent
Minute ==
  /\ IF delivered = <<>> THEN FALSE ELSE delivered[Len(delivered)].at = now
  /\ now' = now + 1
  /\ UNCHANGED <<env, OPTIMAL_THRESHOLDS, monitorStatus, alertHistory,
                 lastAlertTime, cycles, runs, initialFired, delivered, gate,
                 scoreIn, scoreOut, backtester, backtestOut, thrown, stateOut>>

HistoryNext ==
  \/ RecordAlertSent(RecordedCohort, RecordedAlerts)
  \/ GetAlertHistory
  \/ Minute

SpecHistory == Init /\ [][HistoryNext]_vars

-----------------------------------------------------------------------------
(* The cooldown gate and the monitoring passes, checked under Spec.          *)

\* the cohorts of the feed's snapshots
CohortKeys == {<<2025, 11, 7>>, <<2025, 11, 8>>}

Sending(c, e) ==
  /\ cycles[c].pc = "sending"
  /\ cycles[c].alertsByExpiry[cycles[c].idx].expiry = e

\* C1: the check shouldSendAlert(cohort) and the following
\* recordAlertSent(cohort) are one atomic check-and-set under any interleaving
\* of passes: while one pass is between them no other pass has passed the
\* check for the same cohort, and two emails for one cohort are never
\* delivered within that cohort's cooldown.
C1_CheckAndSetIsAtomic ==
  cooldownHours > 0 =>
    /\ \A c1, c2 \in Cycles, e \in CohortKeys :
         Sending(c1, e) /\ Sending(c2, e) => c1 = c2
    /\ \A i, j \in DOMAIN delivered :
         i < j /\ delivered[i].expiry = delivered[j].expiry =>
           delivered[j].at - delivered[i].at >= cooldownHours * MinutesPerHour

\* C2: with cooldownHours > 0, shouldSendAlert(cohort) is false at the instant
\* of the cohort's recordAlertSent and true once cooldownHours hours have
\* passed since it; for a cohort with no entry it is true.
C2_GateFollowsCooldown ==
  \A e \in CohortKeys :
    /\ e \notin DOMAIN lastAlertTime => shouldSendAlert(lastAlertTime, e)
    /\ e \in DOMAIN lastAlertTime /\ cooldownHours > 0 =>
         /\ now = lastAlertTime[e] => ~shouldSendAlert(lastAlertTime, e)
         /\ now - lastAlertTime[e] >= cooldownHours * MinutesPerHour
              => shouldSendAlert(lastAlertTime, e)

\* C2 witness: a pass asked the gate about a recorded cohort once the cooldown
\* had elapsed, and was let through
C2_Witness ==
  \E e \in DOMAIN lastAlertTime \cap DOMAIN gate :
    /\ cooldownHours > 0
    /\ gate[e].at = now
    /\ now - lastAlertTime[e] >= cooldownHours * MinutesPerHour
    /\ gate[e].answer

\* C3: lastAlertTime and alertHistory change only in the step in which a send
\* for the cohort has returned success, by that cohort's entry alone; a
\* skipped, unconfigured or failed send leaves both unchanged, and no entry of
\* lastAlertTime is ever removed.
C3_RecordedOnlyWhenDelivered ==
  [][ /\ DOMAIN lastAlertTime \subseteq DOMAIN lastAlertTime'
      /\ (lastAlertTime' # lastAlertTime \/ alertHistory' # alertHistory) =>
           /\ Len(delivered') = Len(delivered) + 1
           /\ LET sent == delivered'[Len(delivered')]
              IN /\ lastAlertTime' = SetLastAlert(lastAlertTime, sent.expiry)
                 /\ Len(alertHistory') = Len(alertHistory) + 1
                 /\ alertHistory'[Len(alertHistory')].expiryDate = sent.expiry
                 /\ \A i \in DOMAIN alertHistory :
                      alertHistory'[i] = alertHistory[i] ]_vars

\* C3 witness: all passes are over; one cohort's send succeeded and was
\* recorded, another cohort's passed the gate, did not succeed and has no entry
C3_Witness ==
  /\ \A c \in Cycles : cycles[c].pc = "idle"
  /\ delivered # <<>>
  /\ \E e \in DOMAIN gate : gate[e].answer /\ e \notin DOMAIN lastAlertTime

\* C4: at most one monitoring pass is in progress at any time.
C4_OnePassAtATime ==
  Cardinality({c \in Cycles : cycles[c].pc # "idle"}) <= 1

\* C5: two calls of shouldSendAlert for one cohort with no recordAlertSent for
\* it between them return the same answer.
C5_GateIsIdempotent ==
  [][ \A e \in DOMAIN gate \cap DOMAIN gate' :
        gate'[e].answer = gate[e].answer ]_vars

\* C5 as amended: two such calls at the same instant return the same answer,
\* and between calls at different instants the answer changes only from
\* false to true.
C5_GateAgreesAtOneInstant ==
  [][ \A e \in DOMAIN gate \cap DOMAIN gate' :
        /\ gate'[e].at = gate[e].at => gate'[e].answer = gate[e].answer
        /\ gate[e].answer => gate'[e].answer ]_vars

\* C5 witness: the gate was asked twice about a cohort since its last record,
\* the second time after the clock had moved, and then let the pass through
C5_Witness ==
  \E e \in DOMAIN gate \cap DOMAIN lastAlertTime :
    /\ cooldownHours > 0
    /\ gate[e].calls >= 2
    /\ gate[e].at > lastAlertTime[e]
    /\ gate[e].answer

\* C6: for a given snapshot and evaluation instant the scorer's output does
\* not depend on the module-level OPTIMAL_THRESHOLDS: two passes that scored
\* the same snapshot at the same instant hold the same alerts.
C6_ScorerIgnoresAmbientThresholds ==
  \A c1, c2 \in Cycles :
    /\ cycles[c1].pc = "sending"
    /\ cycles[c2].pc = "sending"
    /\ cycles[c1].options = cycles[c2].options
    /\ cycles[c1].currentTime = cycles[c2].currentTime
    => cycles[c1].alerts = cycles[c2].alerts

-----------------------------------------------------------------------------
(* The scorers applied to one snapshot: a base quote of the 7NOV25 cohort    *)
(* and up to MaxExtraQuotes further quotes, under one weight vector.         *)

MaxExtraQuotes == 2   \* quotes of a snapshot besides the base quote

ExtraDays == {"7", "8"}
ExtraAmounts == {0, 2}

BaseQuote == Quote(<<ETH, Nov25("7"), Strike3300, Call>>, 6, 6, 6)

\* the i-th extra quote has the i-th strike: instrument names are unique
ExtraStrike(i) == <<"3", "4", "0", <<"1", "2", "3", "4", "5">>[i]>>

ExtraQuotes(n) ==
  [1..n -> [day : ExtraDays, price : ExtraAmounts, volume : ExtraAmounts,
            oi : ExtraAmounts]]

SnapshotOf(extras) ==
  <<BaseQuote>> \o
  [i \in 1..Len(extras) |->
     Quote(<<ETH, Nov25(extras[i].day), ExtraStrike(i), Call>>,
           extras[i].price, extras[i].volume, extras[i].oi)]

ScoreInputs ==
  { [options |-> SnapshotOf(extras), weights |-> w, supplied |-> Collected] :
      extras \in UNION {ExtraQuotes(n) : n \in 0..MaxExtraQuotes},
      w \in { [priceWeight |-> DefaultThresholds.priceWeight,
               volumeWeight |-> DefaultThresholds.volumeWeight,
               oiWeight |-> DefaultThresholds.oiWeight] } \cup GridWinners }

\* a scorer's cohorts and statistics, in one shape for the three scorers
Triples(prices, volumes, ois) ==
  [i \in 1..Len(prices) |->
     [price |-> prices[i], volume |-> volumes[i], oi |-> ois[i]]]

Column(opts, field) == [i \in 1..Len(opts) |-> opts[i][field]]

WindowedCohorts(groups) ==
  [key \in {groups[i].expiry : i \in 1..Len(groups)} |->
     LET opts == groups[CHOOSE i \in 1..Len(groups) : groups[i].expiry = key].opts
     IN Triples(Column(opts, "mark_price"), Column(opts, "volume_usd"),
                Column(opts, "open_interest"))]

StoredCohorts(groups) ==
  [key \in {groups[i].expiry : i \in 1..Len(groups)} |->
     LET opts == groups[CHOOSE i \in 1..Len(groups) : groups[i].expiry = key].opts
     IN Triples(Column(opts, "markPrice"), Column(opts, "volume"),
                Column(opts, "openInterest"))]

\* the statistics object as the scorer reads it
WindowedStatsView(expiryStats) ==
  [key \in DOMAIN expiryStats |->
     [mean |-> [price |-> Num(expiryStats[key].avgPrice),
                volume |-> Num(expiryStats[key].avgVolume),
                oi |-> Num(expiryStats[key].avgOI)],
      std |-> [price |-> Num(expiryStats[key].stdPrice),
               volume |-> Num(expiryStats[key].stdVolume),
               oi |-> Num(expiryStats[key].stdOI)]]]

\* the Backtester's statistics object: the stdOI it lacks reads as undefined
StoredStatsView(expiryStats) ==
  [key \in DOMAIN expiryStats |->
     [mean |-> [price |-> Num(expiryStats[key].avgPrice),
                volume |-> Num(expiryStats[key].avgVolume),
                oi |-> Num(expiryStats[key].avgOI)],
      std |-> [price |-> Num(expiryStats[key].stdPrice),
               volume |-> Num(expiryStats[key].stdVolume),
               oi |-> expiryStats[key].stdOI]]]

WindowedTrace(scored) ==
  [i \in 1..Len(scored) |->
     [name |-> scored[i].opt.instrument_name,
      expiry |-> scored[i].expiry,
      value |-> [price |-> scored[i].opt.mark_price,
                 volume |-> scored[i].opt.volume_usd,
                 oi |-> scored[i].opt.open_interest],
      z |-> [price |-> scored[i].score.priceZScore,
             volume |-> scored[i].score.volumeZScore,
             oi |-> scored[i].score.oiZScore],
      decay |-> scored[i].score.timeDecayFactor,
      anomalyScore |-> scored[i].score.anomalyScore]]

StoredTrace(scored) ==
  [i \in 1..Len(scored) |->
     [name |-> scored[i].opt.instrument,
      expiry |-> scored[i].expiry,
      value |-> [price |-> scored[i].opt.markPrice,
                 volume |-> scored[i].opt.volume,
                 oi |-> scored[i].opt.openInterest],
      z |-> [price |-> scored[i].score.priceZScore,
             volume |-> scored[i].score.volumeZScore,
             oi |-> scored[i].score.oiZScore],
      decay |-> scored[i].score.timeDecayFactor,
      anomalyScore |-> scored[i].score.anomalyScore]]

\* the quotes an aggregator put into a cohort, with the hours to expiry it
\* attached to each
WindowedKept(groups) ==
  UNION { { [name |-> groups[i].opts[j].instrument_name,
             expiry |-> groups[i].expiry,
             hours |-> Num(groups[i].opts[j].timeToExpiry)] :
              j \in 1..Len(groups[i].opts) } : i \in 1..Len(groups) }

StoredKept(groups) ==
  UNION { { [name |-> groups[i].opts[j].instrument,
             expiry |-> groups[i].expiry,
             hours |-> groups[i].opts[j].timeToExpiry] :
              j \in 1..Len(groups[i].opts) } : i \in 1..Len(groups) }

\* detectHighProbabilityAlerts(calculateAdvancedStats(options)) under
\* OPTIMAL_THRESHOLDS
ScoreLive ==
  /\ scoreOut.scorer # "live"
  /\ LET st == calculateAdvancedStats(scoreIn.options)
         alerts == detectHighProbabilityAlerts(st.expiryGroups, st.expiryStats)
     IN scoreOut' =
          [scorer |-> "live",
           cohorts |-> WindowedCohorts(st.expiryGroups),
           kept |-> WindowedKept(st.expiryGroups),
           stats |-> WindowedStatsView(st.expiryStats),
           scored |-> WindowedTrace(LiveScored(st.expiryGroups, st.expiryStats)),
           alerts |-> alerts,
           alerted |-> Column(alerts, "symbol")]
  /\ UNCHANGED <<now, env, OPTIMAL_THRESHOLDS, monitorStatus, alertHistory,
                 lastAlertTime, cycles, runs, initialFired, delivered, gate,
                 scoreIn, backtester, backtestOut, thrown, stateOut>>

\* one data point of Backtester.runBacktest: the snapshot as the collector
\* stored it, under the weights handed in
ScoreBacktest ==
  /\ scoreOut.scorer # "backtest"
  /\ LET options == DataPointOptions(scoreIn.options, now, scoreIn.supplied)
         expiryStats == calculateExpiryStats(options)
         w == scoreIn.weights
         alerts == detectAnomalies(options, expiryStats, w.priceWeight,
                                   w.volumeWeight, w.oiWeight)
     IN scoreOut' =
          [scorer |-> "backtest",
           cohorts |-> StoredCohorts(GroupByExpiry(options, <<>>)),
           kept |-> StoredKept(GroupByExpiry(options, <<>>)),
           stats |-> StoredStatsView(expiryStats),
           scored |-> StoredTrace(BacktestScored(options, expiryStats,
                        w.priceWeight, w.volumeWeight, w.oiWeight)),
           alerts |-> alerts,
           alerted |-> Column(alerts, "instrument")]
  /\ UNCHANGED <<now, env, OPTIMAL_THRESHOLDS, monitorStatus, alertHistory,
                 lastAlertTime, cycles, runs, initialFired, delivered, gate,
                 scoreIn, backtester, backtestOut, thrown, stateOut>>

\* historicalAnalysis: detectAlerts(calculateStats(options, currentTime))
ScoreHistorical ==
  /\ scoreOut.scorer # "historical"
  /\ LET st == calculateStats(scoreIn.options, now)
         alerts == detectAlerts(st.expiryGroups, st.expiryStats)
     IN scoreOut' =
          [scorer |-> "historical",
           cohorts |-> WindowedCohorts(st.expiryGroups),
           kept |-> WindowedKept(st.expiryGroups),
           stats |-> WindowedStatsView(st.expiryStats),
           scored |-> WindowedTrace(HistoricalScored(st.expiryGroups,
                                                     st.expiryStats)),
           alerts |-> alerts,
           alerted |-> Column(alerts, "symbol")]
  /\ UNCHANGED <<now, env, OPTIMAL_THRESHOLDS, monitorStatus, alertHistory,
                 lastAlertTime, cycles, runs, initialFired, delivered, gate,
                 scoreIn, backtester, backtestOut, thrown, stateOut>>

ScoreInit ==
  /\ now = StartInstant
  /\ env = [ALERT_COOLDOWN_HOURS |-> JsUndefined,
            RECIPIENT_EMAIL |-> PlaceholderEmail]
  /\ scoreIn \in ScoreInputs
  /\ OPTIMAL_THRESHOLDS = updateThresholds(DefaultThresholds, scoreIn.weights)
  /\ monitorStatus = InitialMonitorStatus
  /\ alertHistory = <<>>
  /\ lastAlertTime = <<>>
  /\ cycles = [c \in Cycles |-> IdleCycle]
  /\ runs = 0
  /\ initialFired = FALSE
  /\ delivered = <<>>
  /\ gate = <<>>
  /\ scoreOut = NoScore
  /\ backtester = NewBacktester
  /\ backtestOut = NoBacktest
  /\ thrown = {}
  /\ stateOut = NoStateCall

ScoreNext == ScoreLive \/ ScoreBacktest \/ ScoreHistorical

SpecScore == ScoreInit /\ [][ScoreNext]_vars

-----------------------------------------------------------------------------
(* The scorers applied to supplied snapshots: symbols that do not parse or   *)
(* expire outside the window, thresholds set through updateThresholds, and   *)
(* data points whose stored timeToExpiry the caller chose.                   *)

Perpetual == <<"P", "E", "R", "P", "E", "T", "U", "A", "L">>

OddSymbols ==
  { <<ETH>>,                                                \* one segment
    <<ETH, Perpetual>>,                                     \* no expiry date
    <<ETH, <<"7", "n", "o", "v", "2", "5">>, Strike3400, Call>>,
    <<ETH, <<"X", "N", "O", "V", "2", "5">>, Strike3400, Call>>,
    <<ETH, Nov25("6"), Strike3400, Call>>,                  \* expired 1 h ago
    <<ETH, Nov25("9"), Strike3400, Call>>,                  \* 71 h ahead
    <<ETH, Nov25("8"), Strike3400, Call>>,                  \* 47 h ahead
    <<ETH, Nov25("7"), Strike3400, Call>> }                 \* 23 h ahead

OddPrices == {-2, 0, 2}

\* three quotes of the 7NOV25 cohort, the outlier between two equal quotes,
\* and one further quote
SuppliedSnapshot(symbol, price) ==
  << Quote(<<ETH, Nov25("7"), Strike3300, Put>>, 2, 2, 2),
     Quote(<<ETH, Nov25("7"), Strike3300, Call>>, 6, 6, 6),
     Quote(<<ETH, Nov25("7"), ExtraStrike(1), Call>>, 2, 2, 2),
     Quote(symbol, price, 2, 2) >>

\* three equal quotes, the middle one with the varying symbol: its cohort may
\* lie between two quotes of another cohort
FlatSnapshot(symbol) ==
  << Quote(<<ETH, Nov25("7"), Strike3300, Put>>, 2, 2, 2),
     Quote(symbol, 2, 2, 2),
     Quote(<<ETH, Nov25("7"), Strike3300, Call>>, 2, 2, 2) >>

SuppliedSnapshots ==
  { SuppliedSnapshot(symbol, price) : symbol \in OddSymbols, price \in OddPrices }
    \cup { FlatSnapshot(symbol) : symbol \in OddSymbols }

DefaultWeights ==
  [priceWeight |-> DefaultThresholds.priceWeight,
   volumeWeight |-> DefaultThresholds.volumeWeight,
   oiWeight |-> DefaultThresholds.oiWeight]

\* what updateThresholds and testThresholds may be handed: the defaults, the
\* last grid point, negative weights, and a window of -1 h to 23 h, whose
\* ends are the hours to expiry of the 6NOV25 and the 7NOV25 quotes
SuppliedThresholds ==
  { DefaultWeights }
    \cup GridWinners
    \cup { [priceWeight |-> -((3 * Scale) \div 2), volumeWeight |-> -Scale,
            oiWeight |-> -(Scale \div 2)],
          [priceWeight |-> DefaultThresholds.priceWeight,
           volumeWeight |-> DefaultThresholds.volumeWeight,
           oiWeight |-> DefaultThresholds.oiWeight,
           minTimeToExpiry |-> -Scale,
           maxTimeToExpiry |-> 23 * Scale] }

\* the timeToExpiry of a data point's options: as collected, missing, or 72 h
\* in the past
SuppliedTimes == {Collected, JsUndefined, Num(-(72 * Scale))}

SuppliedInputs ==
  { [options |-> options, weights |-> w, supplied |-> t] :
      options \in SuppliedSnapshots, w \in SuppliedThresholds,
      t \in SuppliedTimes }

SuppliedInit ==
  /\ now = StartInstant
  /\ env = [ALERT_COOLDOWN_HOURS |-> JsUndefined,
            RECIPIENT_EMAIL |-> PlaceholderEmail]
  /\ scoreIn \in SuppliedInputs
  /\ OPTIMAL_THRESHOLDS = updateThresholds(DefaultThresholds, scoreIn.weights)
  /\ monitorStatus = InitialMonitorStatus
  /\ alertHistory = <<>>
  /\ lastAlertTime = <<>>
  /\ cycles = [c \in Cycles |-> IdleCycle]
  /\ runs = 0
  /\ initialFired = FALSE
  /\ delivered = <<>>
  /\ gate = <<>>
  /\ scoreOut = NoScore
  /\ backtester = NewBacktester
  /\ backtestOut = NoBacktest
  /\ thrown = {}
  /\ stateOut = NoStateCall

SpecSupplied == SuppliedInit /\ [][ScoreNext]_vars

-----------------------------------------------------------------------------
(* The z-score contract of the scorers, checked under SpecScore on what the  *)
(* last applied scorer returned.                                             *)

Dimensions == {"price", "volume", "oi"}

\* the strictly positive values of a cohort in one dimension, the members
\* the statistics are taken over
PositiveValues(cohort, d) == PositiveOnly(Column(cohort, d))

CohortMean(cohort, d) ==
  IF PositiveValues(cohort, d) = <<>> THEN 0
  ELSE Average(PositiveValues(cohort, d))

\* population standard deviation of the strictly positive values
CohortStd(cohort, d) ==
  IF PositiveValues(cohort, d) = <<>> THEN 0
  ELSE calculateStdDev(PositiveValues(cohort, d), CohortMean(cohort, d))

Scored == IF scoreOut.scorer = "none" THEN {} ELSE DOMAIN scoreOut.scored

CohortOfScored(i) == scoreOut.cohorts[scoreOut.scored[i].expiry]

\* C7: in every scorer and each of the dimensions price, volume and open
\* interest, the z-score of a scored quote is 0 whenever the cohort's standard
\* deviation in that dimension is 0.
C7_ZeroStdGivesZeroZ ==
  \A i \in Scored, d \in Dimensions :
    CohortStd(CohortOfScored(i), d) = 0 => scoreOut.scored[i].z[d] = 0

\* C8: whenever the cohort's standard deviation in a dimension is > 0, the
\* z-score of a scored quote in that dimension is |value - mean| / stdDev,
\* whatever the quote's value.
C8_ZIsDistanceOverStd ==
  \A i \in Scored, d \in Dimensions :
    LET cohort == CohortOfScored(i)
    IN CohortStd(cohort, d) > 0 =>
         scoreOut.scored[i].z[d] =
           Div(Abs(scoreOut.scored[i].value[d] - CohortMean(cohort, d)),
               CohortStd(cohort, d))

\* C9: when a cohort has no strictly positive volume (or open interest), the
\* scorer's mean and standard deviation of that dimension are 0 and the
\* z-score of every scored quote of the cohort in it is 0.
C9_NoPositiveMemberGivesZeros ==
  \A i \in Scored, d \in {"volume", "oi"} :
    PositiveValues(CohortOfScored(i), d) = <<>> =>
      /\ scoreOut.stats[scoreOut.scored[i].expiry].mean[d] = Num(0)
      /\ scoreOut.stats[scoreOut.scored[i].expiry].std[d] = Num(0)
      /\ scoreOut.scored[i].z[d] = 0

\* the quotes of the snapshot with the given instrument name
QuotesNamed(name) ==
  {k \in DOMAIN scoreIn.options : scoreIn.options[k].instrument_name = name}

Alerted == IF scoreOut.scorer = "none" THEN {} ELSE DOMAIN scoreOut.alerted

\* C10: a quote with markPrice <= 0 never appears in the alert output of a
\* scorer, whatever its volume, open interest, hours to expiry and the weights.
C10_NonPositivePriceNeverAlerted ==
  \A a \in Alerted : \A k \in QuotesNamed(scoreOut.alerted[a]) :
    scoreIn.options[k].mark_price > 0

\* C10 witness: the live scorer alerted on a snapshot that holds a quote with
\* mark price 0 and positive volume in the cohort of the alerted quote
C10_Witness ==
  /\ scoreOut.scorer = "live"
  /\ Alerted # {}
  /\ \E k \in DOMAIN scoreIn.options :
       /\ scoreIn.options[k].mark_price <= 0
       /\ scoreIn.options[k].volume_usd > 0
       /\ \E a \in Alerted : \E j \in QuotesNamed(scoreOut.alerted[a]) :
            scoreIn.options[j].instrument_name[2]
              = scoreIn.options[k].instrument_name[2]

-----------------------------------------------------------------------------
(* The Backtester: data points are added to an instance, and backtest passes *)
(* and grid searches run over what it holds.                                 *)

MaxSamples == 2   \* data points an instance holds

\* the index price when a snapshot was collected
ReferencePrice == 100 * Scale

\* one outlier whose open interest stands out further: it alerts from lower
\* weights on than the outlier of SuppliedSnapshot
SnapshotLoud ==
  << Quote(<<ETH, Nov25("7"), Strike3300, Put>>, 2, 2, 2),
     Quote(<<ETH, Nov25("7"), Strike3300, Call>>, 6, 6, 10),
     Quote(<<ETH, Nov25("7"), Strike3400, Call>>, 2, 2, 2) >>

\* collectMarketSnapshot at StartInstant: two snapshots with an outlier each,
\* which alert under some weights only, the one from lower weights on than
\* the other
CollectedSnapshots ==
  { [timestamp |-> StartInstant, ethPrice |-> Num(ReferencePrice),
     options |-> StoredOptions(options, StartInstant)] :
      options \in { SnapshotLoud,
                    SuppliedSnapshot(<<ETH, Nov25("8"), Strike3400, Call>>, 2) } }

\* the later index price handed to addDataPoint: missing, zero, 2 % down,
\* 1.99 % up or 2 % up
FuturePrices ==
  { JsNull, Num(0), Num(ReferencePrice - 2 * Scale),
    Num(ReferencePrice + 2 * Scale - 10), Num(ReferencePrice + 2 * Scale) }

LowWeights ==
  [priceWeight |-> Scale \div 2, volumeWeight |-> Scale \div 2,
   oiWeight |-> (3 * Scale) \div 10]

BacktestWeights == {LowWeights, DefaultWeights} \cup GridWinners

\* candidate lists handed to testThresholds
PriceLists == { <<(3 * Scale) \div 2>>, <<Scale \div 2, 3 * Scale>> }
VolumeLists == { <<Scale>>, <<Scale \div 2, (5 * Scale) \div 2>> }
OiLists == { <<>>, <<Scale \div 2>>, <<(3 * Scale) \div 10, Scale>> }

MaxReports == 2   \* generateReport calls in a row on one instance

\* success rates handed to generateRecommendation: the ends of each band
BandRates ==
  { 0, 30 * Scale - 1, 30 * Scale, 50 * Scale - 1, 50 * Scale, 70 * Scale - 1,
    70 * Scale, 100 * Scale }

\* no call has read the instance since its last data point came in
NothingReturned == backtestOut.call \in {"none", "addDataPoint"}

\* the instance of a finished runBacktestingAnalysis is out of reach
InstanceInReach == backtestOut.call # "runBacktestingAnalysis"

\* backtester.addDataPoint(snapshot, futureETHPrice)
AddDataPoint(snapshot, futureETHPrice) ==
  /\ InstanceInReach
  /\ Len(backtester.historicalData) < MaxSamples
  /\ backtester' = addDataPoint(backtester, snapshot, futureETHPrice)
  /\ backtestOut' = [call |-> "addDataPoint"]
  /\ UNCHANGED <<now, env, OPTIMAL_THRESHOLDS, monitorStatus, alertHistory,
                 lastAlertTime, cycles, runs, initialFired, delivered, gate,
                 scoreIn, scoreOut, thrown, stateOut>>

\* backtester.runBacktest(priceThreshold, volumeThreshold, oiThreshold): what
\* it returns, and the counters after each data point of its forEach; a pass
\* reads the instance and writes nothing, so a repeated call is not taken
RunBacktest(w) ==
  /\ InstanceInReach
  /\ backtestOut.call # "runBacktest"
  /\ backtestOut' =
       [call |-> "runBacktest",
        historicalData |-> backtester.historicalData,
        weights |-> w,
        counters |-> [n \in 0..Len(backtester.historicalData) |->
                       BacktestCounters(backtester.historicalData, n,
                         w.priceWeight, w.volumeWeight, w.oiWeight)],
        result |-> runBacktest(backtester.historicalData, w.priceWeight,
                               w.volumeWeight, w.oiWeight)]
  /\ UNCHANGED <<now, env, OPTIMAL_THRESHOLDS, monitorStatus, alertHistory,
                 lastAlertTime, cycles, runs, initialFired, delivered, gate,
                 scoreIn, scoreOut, backtester, thrown, stateOut>>

\* backtester.testThresholds(priceThresholds, volumeThresholds, oiThresholds)
TestThresholds(priceThresholds, volumeThresholds, oiThresholds) ==
  /\ InstanceInReach
  /\ backtestOut.call # "testThresholds"
  /\ backtestOut' =
       [call |-> "testThresholds",
        historicalData |-> backtester.historicalData,
        priceThresholds |-> priceThresholds,
        volumeThresholds |-> volumeThresholds,
        oiThresholds |-> oiThresholds,
        results |-> testThresholds(backtester.historicalData, priceThresholds,
                                   volumeThresholds, oiThresholds)]
  /\ UNCHANGED <<now, env, OPTIMAL_THRESHOLDS, monitorStatus, alertHistory,
                 lastAlertTime, cycles, runs, initialFired, delivered, gate,
                 scoreIn, scoreOut, backtester, thrown, stateOut>>

\* backtester.generateReport(): what it returns, and the instance it leaves;
\* called on a fresh instance, or again right after it returned
GenerateReport ==
  /\ \/ NothingReturned
     \/ backtestOut.call = "generateReport" /\ backtestOut.calls < MaxReports
  /\ backtestOut' =
       [call |-> "generateReport",
        calls |-> IF backtestOut.call = "generateReport"
                  THEN backtestOut.calls + 1 ELSE 1,
        historicalData |-> backtester.historicalData,
        report |-> generateReport(backtester.historicalData)]
  /\ backtester' = BacktesterAfterReport(backtester)
  /\ UNCHANGED <<now, env, OPTIMAL_THRESHOLDS, monitorStatus, alertHistory,
                 lastAlertTime, cycles, runs, initialFired, delivered, gate,
                 scoreIn, scoreOut, thrown, stateOut>>

\* backtester.generateRecommendation(optimal)
GenerateRecommendation(optimal) ==
  /\ NothingReturned
  /\ backtestOut' = [call |-> "generateRecommendation",
                     optimal |-> optimal,
                     recommendation |-> generateRecommendation(optimal)]
  /\ UNCHANGED <<now, env, OPTIMAL_THRESHOLDS, monitorStatus, alertHistory,
                 lastAlertTime, cycles, runs, initialFired, delivered, gate,
                 scoreIn, scoreOut, backtester, thrown, stateOut>>

\* runBacktestingAnalysis from the point where its Backtester holds the data
\* points it was handed or has collected: the report, and updateThresholds
\* when the success rate allows it
RunBacktestingAnalysis ==
  /\ NothingReturned
  /\ \E report \in { generateReport(backtester.historicalData) } :
       /\ OPTIMAL_THRESHOLDS' =
            IF report.performance.successRate >= 30 * Scale
            THEN updateThresholds(OPTIMAL_THRESHOLDS,
                   [priceWeight |-> report.optimalThresholds.price,
                    volumeWeight |-> report.optimalThresholds.volume,
                    oiWeight |-> report.optimalThresholds.openInterest])
            ELSE OPTIMAL_THRESHOLDS
       /\ backtestOut' = [call |-> "runBacktestingAnalysis",
                          historicalData |-> backtester.historicalData,
                          thresholds |-> OPTIMAL_THRESHOLDS,
                          report |-> report]
  /\ UNCHANGED <<now, env, monitorStatus, alertHistory, lastAlertTime, cycles,
                 runs, initialFired, delivered, gate, scoreIn, scoreOut,
                 backtester, thrown, stateOut>>

BacktestInit ==
  /\ now = StartInstant
  /\ env = [ALERT_COOLDOWN_HOURS |-> JsUndefined,
            RECIPIENT_EMAIL |-> PlaceholderEmail]
  /\ OPTIMAL_THRESHOLDS = DefaultThresholds
  /\ monitorStatus = InitialMonitorStatus
  /\ alertHistory = <<>>
  /\ lastAlertTime = <<>>
  /\ cycles = [c \in Cycles |-> IdleCycle]
  /\ runs = 0
  /\ initialFired = FALSE
  /\ delivered = <<>>
  /\ gate = <<>>
  /\ scoreIn = NoScoring
  /\ scoreOut = NoScore
  /\ backtester = NewBacktester
  /\ backtestOut = NoBacktest
  /\ thrown = {}
  /\ stateOut = NoStateCall

BacktestNext ==
  \/ \E snapshot \in CollectedSnapshots, futureETHPrice \in FuturePrices :
       AddDataPoint(snapshot, futureETHPrice)
  \/ \E w \in BacktestWeights : RunBacktest(w)
  \/ \E priceThresholds \in PriceLists, volumeThresholds \in VolumeLists,
        oiThresholds \in OiLists :
       TestThresholds(priceThresholds, volumeThresholds, oiThresholds)
  \/ GenerateReport
  \/ \E successRate \in BandRates :
       GenerateRecommendation([successRate |-> successRate])
  \/ RunBacktestingAnalysis

SpecBacktest == BacktestInit /\ [][BacktestNext]_vars

-----------------------------------------------------------------------------
(* The scoring contract, checked under SpecSupplied on what the last applied *)
(* scorer returned.                                                          *)

\* C11: the time-decay factor of every scored quote lies in [0,1], in the
\* live scorer and in the backtest scorer, for every snapshot (supplied
\* backtest snapshots with an arbitrary timeToExpiry included) and every
\* value of the thresholds min/maxTimeToExpiry.
C11_TimeDecayWithinUnitInterval ==
  \A i \in Scored :
    /\ 0 <= scoreOut.scored[i].decay
    /\ scoreOut.scored[i].decay <= Scale

\* the weights the scorer last applied worked with: the module-level
\* thresholds (live), the arguments (backtest), the literals (historical)
AppliedWeights ==
  CASE scoreOut.scorer = "live" ->
         [priceWeight |-> OPTIMAL_THRESHOLDS.priceWeight,
          volumeWeight |-> OPTIMAL_THRESHOLDS.volumeWeight,
          oiWeight |-> OPTIMAL_THRESHOLDS.oiWeight]
    [] scoreOut.scorer = "backtest" ->
         [priceWeight |-> scoreIn.weights.priceWeight,
          volumeWeight |-> scoreIn.weights.volumeWeight,
          oiWeight |-> scoreIn.weights.oiWeight]
    [] OTHER -> DefaultWeights

\* priceZ*priceWeight + volumeZ*volumeWeight + oiZ*oiWeight + timeDecay*2.0
\* on the magnitudes of the z-scores a scorer computed
Composite(t, w) ==
  Mul(Abs(t.z.price), w.priceWeight) + Mul(Abs(t.z.volume), w.volumeWeight)
    + Mul(Abs(t.z.oi), w.oiWeight) + Mul(t.decay, 2 * Scale)

IsAlerted(i) ==
  \E a \in Alerted : scoreOut.alerted[a] = scoreOut.scored[i].name

\* C12: a scored quote becomes an alert if and only if its composite score
\* priceZ*priceWeight + volumeZ*volumeWeight + oiZ*oiWeight + timeDecay*2.0
\* is >= the score threshold 5.0; nothing else is alerted.
C12_AlertIffCompositeReachesThreshold ==
  /\ \A i \in Scored :
       /\ scoreOut.scored[i].anomalyScore
            = Composite(scoreOut.scored[i], AppliedWeights)
       /\ IsAlerted(i) <=>
            Composite(scoreOut.scored[i], AppliedWeights) >= 5 * Scale
  /\ \A a \in Alerted :
       \E i \in Scored : scoreOut.scored[i].name = scoreOut.alerted[a]

\* C12 witness: the backtest scorer alerted a quote whose composite score is
\* exactly 5.0 and left a scored quote below 5.0 out
C12_Witness ==
  /\ scoreOut.scorer = "backtest"
  /\ \E i \in Scored :
       /\ Composite(scoreOut.scored[i], AppliedWeights) = 5 * Scale
       /\ IsAlerted(i)
  /\ \E j \in Scored :
       /\ Composite(scoreOut.scored[j], AppliedWeights) < 5 * Scale
       /\ ~IsAlerted(j)

\* quote j is at least quote i in every z-score magnitude and in time decay
Dominates(i, j) ==
  /\ \A d \in Dimensions :
       Abs(scoreOut.scored[i].z[d]) <= Abs(scoreOut.scored[j].z[d])
  /\ scoreOut.scored[i].decay <= scoreOut.scored[j].decay

NonNegativeWeights ==
  /\ AppliedWeights.priceWeight >= 0
  /\ AppliedWeights.volumeWeight >= 0
  /\ AppliedWeights.oiWeight >= 0

QuoteOfAlert(a) ==
  CHOOSE k \in DOMAIN scoreIn.options :
    scoreIn.options[k].instrument_name = scoreOut.alerted[a]

\* the position at which the cohort of quote k first occurs in the snapshot
CohortFirst(k) ==
  CHOOSE j \in 1..k :
    /\ Len(scoreIn.options[j].instrument_name) >= 2
    /\ scoreIn.options[j].instrument_name[2] = scoreIn.options[k].instrument_name[2]
    /\ \A l \in 1..(j - 1) :
         \/ Len(scoreIn.options[l].instrument_name) < 2
         \/ scoreIn.options[l].instrument_name[2]
              # scoreIn.options[k].instrument_name[2]

\* cohort order, then quote order within the cohort
CohortOrderBefore(k1, k2) ==
  \/ CohortFirst(k1) < CohortFirst(k2)
  \/ CohortFirst(k1) = CohortFirst(k2) /\ k1 < k2

\* the order in which the scorer enumerated the quotes: the live and the
\* historical scorer walk the cohorts, the Backtester walks the snapshot
EnumeratedBefore(k1, k2) ==
  IF scoreOut.scorer = "backtest" THEN k1 < k2 ELSE CohortOrderBefore(k1, k2)

\* C14 as stated: the returned alert list is sorted in descending order of
\* score, and alerts with equal score keep the order cohort first, then quote
\* within the cohort.
C14_SortedTiesInCohortOrder ==
  \A a \in Alerted, b \in Alerted :
    a < b =>
      \/ scoreOut.alerts[a].anomalyScore > scoreOut.alerts[b].anomalyScore
      \/ /\ scoreOut.alerts[a].anomalyScore = scoreOut.alerts[b].anomalyScore
         /\ CohortOrderBefore(QuoteOfAlert(a), QuoteOfAlert(b))

\* C14 amended: the returned alert list is sorted in descending order of the
\* returned score, and alerts with equal score keep the order in which the
\* scorer enumerated their quotes.
C14_SortedTiesInEnumerationOrder ==
  \A a \in Alerted, b \in Alerted :
    a < b =>
      \/ scoreOut.alerts[a].anomalyScore > scoreOut.alerts[b].anomalyScore
      \/ /\ scoreOut.alerts[a].anomalyScore = scoreOut.alerts[b].anomalyScore
         /\ EnumeratedBefore(QuoteOfAlert(a), QuoteOfAlert(b))

\* C14 witness: the live scorer returned three alerts, the first from the
\* second quote of the snapshot, the other two with equal scores
C14_Witness ==
  /\ scoreOut.scorer = "live"
  /\ Len(scoreOut.alerts) = 3
  /\ QuoteOfAlert(1) = 2
  /\ scoreOut.alerts[2].anomalyScore = scoreOut.alerts[3].anomalyScore
  /\ scoreOut.alerts[1].anomalyScore > scoreOut.alerts[2].anomalyScore

\* the quote parses and its hours to expiry at the evaluation instant lie in
\* the live window
InLiveWindow(q) ==
  LET ts == parseExpiryTimestamp(q.instrument_name)
  IN /\ ~IsFalsy(ts)
     /\ OPTIMAL_THRESHOLDS.minTimeToExpiry <= HoursOf(ts.v - now)
     /\ HoursOf(ts.v - now) <= OPTIMAL_THRESHOLDS.maxTimeToExpiry

\* the quotes of the snapshot in the live window that expire on the date
\* `key`, in snapshot order
WindowCohort(key) ==
  LET Member(q) ==
        InLiveWindow(q)
          /\ ISODate(parseExpiryTimestamp(q.instrument_name).v) = key
  IN SelectSeq(scoreIn.options, Member)

KeptNames == {e.name : e \in scoreOut.kept}

ScoredNames == {scoreOut.scored[i].name : i \in Scored}

AlertedNames == {scoreOut.alerted[a] : a \in Alerted}

\* C15: every quote kept by the live aggregator has a parseable expiry and
\* minHours <= hoursToExpiry <= maxHours (0.5 and 48 by default) at the
\* evaluation instant; a quote with an unparseable symbol or outside the
\* window contributes neither to any cohort's statistics nor to any alert.
C15_LiveAggregatorKeepsWindowOnly ==
  scoreOut.scorer = "live" =>
    /\ \A e \in scoreOut.kept :
         \E k \in DOMAIN scoreIn.options :
           /\ scoreIn.options[k].instrument_name = e.name
           /\ InLiveWindow(scoreIn.options[k])
           /\ e.hours
                = Num(HoursOf(parseExpiryTimestamp(e.name).v - now))
    /\ \A k \in DOMAIN scoreIn.options :
         ~InLiveWindow(scoreIn.options[k]) =>
           scoreIn.options[k].instrument_name
             \notin KeptNames \cup ScoredNames \cup AlertedNames
    /\ \A key \in DOMAIN scoreOut.cohorts :
         scoreOut.cohorts[key]
           = Triples(Column(WindowCohort(key), "mark_price"),
                     Column(WindowCohort(key), "volume_usd"),
                     Column(WindowCohort(key), "open_interest"))
    /\ DOMAIN scoreOut.stats \subseteq DOMAIN scoreOut.cohorts

\* C15 witness: the live scorer alerted on a snapshot that holds a quote
\* with a positive price whose expiry parses and lies outside the window
C15_Witness ==
  /\ scoreOut.scorer = "live"
  /\ Alerted # {}
  /\ \E k \in DOMAIN scoreIn.options :
       /\ ~IsFalsy(parseExpiryTimestamp(scoreIn.options[k].instrument_name))
       /\ ~InLiveWindow(scoreIn.options[k])
       /\ scoreIn.options[k].mark_price > 0

\* the cohorts the aggregator formed that hold no strictly positive price
PricelessCohorts ==
  IF scoreOut.scorer = "none" THEN {}
  ELSE {key \in DOMAIN scoreOut.cohorts :
          \A i \in DOMAIN scoreOut.cohorts[key] :
            ~(scoreOut.cohorts[key][i].price > 0)}

\* C16: a cohort with zero members of strictly positive price is absent from
\* the statistics map, and none of its quotes is ever scored or alerted.
C16_PricelessCohortHasNoStatistics ==
  \A key \in PricelessCohorts :
    /\ key \notin DOMAIN scoreOut.stats
    /\ \A i \in Scored : scoreOut.scored[i].expiry # key
    /\ \A e \in scoreOut.kept :
         e.expiry = key => e.name \notin ScoredNames \cup AlertedNames

\* C16 witness: the live scorer alerted on a snapshot of which it kept a
\* cohort without a positive price
C16_Witness ==
  /\ scoreOut.scorer = "live"
  /\ Alerted # {}
  /\ PricelessCohorts # {}

\* the symbol has fewer than two hyphen-delimited segments, or the month
\* abbreviation of its second segment is none of the twelve
LacksExpiry(name) ==
  \/ Len(name) < 2
  \/ JsSlice(name[2], -5, -2) \notin {MonthNames[i] : i \in 1..12}

\* C17: parseExpiryTimestamp returns a value for every symbol (it never
\* throws), and null when the symbol has fewer than two hyphen-delimited
\* segments or an unrecognized month abbreviation; the aggregators then
\* exclude that quote and go on with the rest of the batch.
C17_UnparseableSymbolGivesNull ==
  \A k \in DOMAIN scoreIn.options :
    LET name == scoreIn.options[k].instrument_name
        parsed == parseExpiryTimestamp(name)
    IN /\ parsed \in {JsNull, JsNaN} \/ parsed = Num(parsed.v)
       /\ LacksExpiry(name) => parsed = JsNull
       /\ scoreOut.scorer # "none" =>
            /\ LacksExpiry(name) =>
                 name \notin KeptNames \cup ScoredNames \cup AlertedNames
            /\ scoreOut.scorer = "backtest" /\ ~IsFalsy(parsed) =>
                 name \in KeptNames
            /\ scoreOut.scorer = "live" /\ InLiveWindow(scoreIn.options[k]) =>
                 name \in KeptNames

\* C17 witness: the Backtester alerted on a snapshot whose second quote has
\* no month abbreviation and whose third quote it kept
C17_Witness ==
  /\ scoreOut.scorer = "backtest"
  /\ Alerted # {}
  /\ Len(scoreIn.options) = 3
  /\ Len(scoreIn.options[2].instrument_name) >= 2
  /\ LacksExpiry(scoreIn.options[2].instrument_name)
  /\ scoreIn.options[3].instrument_name \in KeptNames

-----------------------------------------------------------------------------
(* The backtest contract, checked under SpecBacktest on what the last call   *)
(* on the Backtester returned.                                               *)

\* the combination (p, v, o) with what runBacktest returns for it
ExpectedResult(historicalData, p, v, o) ==
  LET result == runBacktest(historicalData, p, v, o)
  IN [priceThreshold |-> p, volumeThreshold |-> v, oiThreshold |-> o,
      totalAlerts |-> result.totalAlerts, successful |-> result.successful,
      falsePositives |-> result.falsePositives,
      successRate |-> result.successRate, precision |-> result.precision]

\* C18: testThresholds returns |P|*|V|*|O| results, one for each (price,
\* volume, oi) combination of the three candidate lists, each the result of
\* runBacktest with exactly those three weights: no combination is pruned.
C18_GridIsFullCartesianProduct ==
  backtestOut.call = "testThresholds" =>
    LET P == backtestOut.priceThresholds
        V == backtestOut.volumeThresholds
        O == backtestOut.oiThresholds
        results == backtestOut.results
    IN /\ Len(results) = Len(P) * Len(V) * Len(O)
       /\ \A i \in DOMAIN P, j \in DOMAIN V, k \in DOMAIN O :
            \E r \in DOMAIN results :
              results[r] = ExpectedResult(backtestOut.historicalData,
                                          P[i], V[j], O[k])
       /\ \A r \in DOMAIN results :
            \E i \in DOMAIN P, j \in DOMAIN V, k \in DOMAIN O :
              /\ results[r].priceThreshold = P[i]
              /\ results[r].volumeThreshold = V[j]
              /\ results[r].oiThreshold = O[k]

\* C18 witness: a grid of 2 x 2 x 2 candidates over two data points, of
\* which some combinations alert and others do not
C18_Witness ==
  /\ backtestOut.call = "testThresholds"
  /\ Len(backtestOut.historicalData) = 2
  /\ Len(backtestOut.results) = 8
  /\ \E r1 \in DOMAIN backtestOut.results, r2 \in DOMAIN backtestOut.results :
       /\ backtestOut.results[r1].totalAlerts > 0
       /\ backtestOut.results[r2].totalAlerts = 0

\* the alerts the scorer gives for a sample's snapshot under the weights
AlertsOfSample(dataPoint, w) ==
  detectAnomalies(dataPoint.options, calculateExpiryStats(dataPoint.options),
                  w.priceWeight, w.volumeWeight, w.oiWeight)

\* C19: in one backtest pass every sample that produced at least one alert
\* increments totalAlerts by exactly one and exactly one of successful /
\* falsePositives, a sample that produced no alert changes no counter, and
\* in the end totalAlerts = successful + falsePositives <= number of samples.
C19_CountersFollowAlertingSamples ==
  backtestOut.call = "runBacktest" =>
    /\ \A n \in 1..Len(backtestOut.historicalData) :
         LET before == backtestOut.counters[n - 1]
             after == backtestOut.counters[n]
         IN IF AlertsOfSample(backtestOut.historicalData[n],
                              backtestOut.weights) # <<>>
            THEN /\ after.totalAlerts = before.totalAlerts + 1
                 /\ \/ /\ after.successful = before.successful + 1
                       /\ after.falsePositives = before.falsePositives
                    \/ /\ after.successful = before.successful
                       /\ after.falsePositives = before.falsePositives + 1
            ELSE after = before
    /\ backtestOut.result.totalAlerts
         = backtestOut.result.successful + backtestOut.result.falsePositives
    /\ backtestOut.result.totalAlerts <= Len(backtestOut.historicalData)

\* |futureReferencePrice - referencePrice| / referencePrice >= 0.02, for a
\* positive reference price
MovedTwoPercent(dataPoint) ==
  /\ dataPoint.futureETHPrice.tag = "num"
  /\ Abs(dataPoint.futureETHPrice.v - dataPoint.ethPrice.v) * 100
       >= 2 * dataPoint.ethPrice.v

\* C20: a sample that produced at least one alert is classified successful
\* if and only if |future - reference| / reference >= 0.02, and falsePositive
\* otherwise.
C20_SuccessfulIffTwoPercentMove ==
  backtestOut.call = "runBacktest" =>
    \A n \in 1..Len(backtestOut.historicalData) :
      AlertsOfSample(backtestOut.historicalData[n], backtestOut.weights) # <<>>
      => LET before == backtestOut.counters[n - 1]
             after == backtestOut.counters[n]
         IN /\ after.successful = before.successful + 1
                 <=> MovedTwoPercent(backtestOut.historicalData[n])
            /\ after.falsePositives = before.falsePositives + 1
                 <=> ~MovedTwoPercent(backtestOut.historicalData[n])

\* every result the last call returned: of a pass, of each combination of a
\* grid, or the performance a report carries
ReturnedResults ==
  IF backtestOut.call = "runBacktest" THEN {backtestOut.result}
  ELSE IF backtestOut.call = "testThresholds"
  THEN {backtestOut.results[r] : r \in DOMAIN backtestOut.results}
  ELSE IF backtestOut.call \in {"generateReport", "runBacktestingAnalysis"}
  THEN {backtestOut.report.performance}
  ELSE {}

\* precision is successful / totalAlerts to the thousandth, and successRate
\* a hundred times it
RatesFollowCounters(r) ==
  /\ r.totalAlerts = 0 => r.successRate = 0 /\ r.precision = 0
  /\ r.totalAlerts > 0 =>
       /\ r.precision * r.totalAlerts <= r.successful * Scale
       /\ r.successful * Scale < (r.precision + 1) * r.totalAlerts
  /\ r.successRate = 100 * r.precision
  /\ 0 <= r.successRate /\ r.successRate <= 100 * Scale

\* C21: for every weight combination successRate = successful / totalAlerts
\* * 100 and precision = successful / totalAlerts, both 0 when totalAlerts =
\* 0; so successRate is in [0, 100] and equals 100 * precision.
C21_RatesFollowCounters ==
  \A r \in ReturnedResults : RatesFollowCounters(r)

\* C21 witness: a pass in which one of two alerting samples was successful
C21_Witness ==
  /\ backtestOut.call = "runBacktest"
  /\ backtestOut.result.totalAlerts = 2
  /\ backtestOut.result.successful = 1
  /\ backtestOut.result.successRate = 50 * Scale

\* the place of the combination (P[i], V[j], O[k]) in the traversal: price
\* outermost, then volume, then open interest
TraversalIndex(V, O, i, j, k) == ((i - 1) * Len(V) + (j - 1)) * Len(O) + k

\* the success rate of every combination of the optimizer's lists on the
\* data points
OptimizerRates(historicalData) ==
  [i \in DOMAIN OptimizerPriceThresholds,
   j \in DOMAIN OptimizerVolumeThresholds,
   k \in DOMAIN OptimizerOiThresholds |->
     runBacktest(historicalData, OptimizerPriceThresholds[i],
                 OptimizerVolumeThresholds[j],
                 OptimizerOiThresholds[k]).successRate]

\* the report recommends combination (i, j, k): no combination has a higher
\* success rate, and every combination before it has a lower one
RecommendsFirstBest(report, rates, i, j, k) ==
  /\ report.optimalThresholds =
       [price |-> OptimizerPriceThresholds[i],
        volume |-> OptimizerVolumeThresholds[j],
        openInterest |-> OptimizerOiThresholds[k]]
  /\ report.performance.successRate = rates[i, j, k]
  /\ \A i2 \in DOMAIN OptimizerPriceThresholds,
        j2 \in DOMAIN OptimizerVolumeThresholds,
        k2 \in DOMAIN OptimizerOiThresholds :
       /\ rates[i2, j2, k2] <= rates[i, j, k]
       /\ TraversalIndex(OptimizerVolumeThresholds, OptimizerOiThresholds,
                         i2, j2, k2)
            < TraversalIndex(OptimizerVolumeThresholds, OptimizerOiThresholds,
                             i, j, k)
          => rates[i2, j2, k2] < rates[i, j, k]

\* where a result of a grid stands in the traversal of the lists handed in
ResultIndex(result) ==
  LET P == backtestOut.priceThresholds
      V == backtestOut.volumeThresholds
      O == backtestOut.oiThresholds
      i == CHOOSE i \in DOMAIN P : P[i] = result.priceThreshold
      j == CHOOSE j \in DOMAIN V : V[j] = result.volumeThreshold
      k == CHOOSE k \in DOMAIN O : O[k] = result.oiThreshold
  IN TraversalIndex(V, O, i, j, k)

\* C22: the recommendation is the combination with the highest successRate,
\* and among equal successRates the first in the grid traversal (price
\* outermost, then volume, then open interest); the returned ranking is in
\* descending successRate.
C22_RecommendsFirstBestOfRanking ==
  /\ backtestOut.call = "generateReport" =>
       \E rates \in { OptimizerRates(backtestOut.historicalData) } :
         \E i \in DOMAIN OptimizerPriceThresholds,
            j \in DOMAIN OptimizerVolumeThresholds,
            k \in DOMAIN OptimizerOiThresholds :
           RecommendsFirstBest(backtestOut.report, rates, i, j, k)
  /\ backtestOut.call = "testThresholds" =>
       \A r1 \in DOMAIN backtestOut.results, r2 \in DOMAIN backtestOut.results :
         r1 < r2 =>
           /\ backtestOut.results[r1].successRate
                >= backtestOut.results[r2].successRate
           /\ backtestOut.results[r1].successRate
                = backtestOut.results[r2].successRate
              => ResultIndex(backtestOut.results[r1])
                   < ResultIndex(backtestOut.results[r2])

\* C22 witness: a report over two data points whose recommendation has rate
\* 50 and is the fourth combination of the traversal, after combinations
\* that alerted with rate 0
C22_Witness ==
  /\ backtestOut.call = "generateReport"
  /\ Len(backtestOut.historicalData) = 2
  /\ backtestOut.report.performance.successRate = 50 * Scale
  /\ backtestOut.report.optimalThresholds.openInterest = Scale

\* every recommendation the last call returned, with the success rate it
\* was made for
Recommendations ==
  IF backtestOut.call = "generateRecommendation"
  THEN {<<backtestOut.optimal.successRate, backtestOut.recommendation>>}
  ELSE IF backtestOut.call \in {"generateReport", "runBacktestingAnalysis"}
  THEN {<<backtestOut.report.performance.successRate,
          backtestOut.report.recommendation>>}
  ELSE {}

\* the text is the one of the band the rate lies in
InItsBand(rate, text) ==
  /\ text = "EXCELLENT: High success rate. Deploy with confidence."
       <=> rate >= 70 * Scale
  /\ text = "GOOD: Moderate success rate. Consider collecting more data."
       <=> 50 * Scale <= rate /\ rate < 70 * Scale
  /\ text = "FAIR: Low success rate. Refine criteria or collect more data."
       <=> 30 * Scale <= rate /\ rate < 50 * Scale
  /\ text = "POOR: Very low success rate. Criteria need significant refinement."
       <=> rate < 30 * Scale

\* C23: the recommendation text is determined by the winning combination's
\* successRate alone: EXCELLENT for >= 70, GOOD for [50, 70), FAIR for
\* [30, 50), POOR for < 30; every successRate falls in exactly one band.
C23_RecommendationFollowsBand ==
  \A rec \in Recommendations : InItsBand(rec[1], rec[2])

\* C23 witness: the recommendation for a success rate just below 50
C23_Witness ==
  /\ backtestOut.call = "generateRecommendation"
  /\ backtestOut.optimal.successRate = 50 * Scale - 1
  /\ backtestOut.recommendation
       = "FAIR: Low success rate. Refine criteria or collect more data."

\* C24: with an empty corpus of samples the optimizer does not fail and
\* returns a well-defined report with totalAlerts = 0, successful = 0,
\* falsePositives = 0, successRate = 0, precision = 0 and the POOR-band
\* recommendation.
C24_EmptyCorpusGivesZeroReport ==
  (/\ backtestOut.call \in {"generateReport", "runBacktestingAnalysis"}
   /\ backtestOut.historicalData = <<>>)
  => /\ backtestOut.report.performance
          = [successRate |-> 0, precision |-> 0, totalAlerts |-> 0,
             successful |-> 0, falsePositives |-> 0]
     /\ backtestOut.report.dataPoints = 0
     /\ backtestOut.report.recommendation
          = "POOR: Very low success rate. Criteria need significant refinement."
     /\ backtestOut.report.optimalThresholds
          = [price |-> OptimizerPriceThresholds[1],
             volume |-> OptimizerVolumeThresholds[1],
             openInterest |-> OptimizerOiThresholds[1]]

\* C24 witness: generateReport has returned on an instance without data
\* points
C24_Witness ==
  /\ backtestOut.call = "generateReport"
  /\ backtestOut.historicalData = <<>>
  /\ backtester.historicalData = <<>>

\* generateReport returns for the second time in a row on one instance
ReportsAgain ==
  /\ backtestOut.call = "generateReport"
  /\ backtestOut'.call = "generateReport"
  /\ backtestOut'.calls = backtestOut.calls + 1

C27_ThresholdsFollowSuccessRate ==
  backtestOut.call = "runBacktestingAnalysis" =>
    LET before == backtestOut.thresholds
        winner == backtestOut.report.optimalThresholds
    IN IF backtestOut.report.performance.successRate >= 30 * Scale
       THEN OPTIMAL_THRESHOLDS =
              [priceWeight |-> winner.price,
               volumeWeight |-> winner.volume,
               oiWeight |-> winner.openInterest,
               anomalyScoreThreshold |-> before.anomalyScoreThreshold,
               minTimeToExpiry |-> before.minTimeToExpiry,
               maxTimeToExpiry |-> before.maxTimeToExpiry]
       ELSE OPTIMAL_THRESHOLDS = before

\* C27 witness: an analysis whose winner has success rate 50 has put the
\* winning weights in place of the default ones
C27_Witness ==
  /\ backtestOut.call = "runBacktestingAnalysis"
  /\ backtestOut.report.performance.successRate = 50 * Scale
  /\ backtestOut.thresholds = DefaultThresholds
  /\ OPTIMAL_THRESHOLDS.oiWeight = Scale
  /\ OPTIMAL_THRESHOLDS.priceWeight = Scale \div 2
  /\ OPTIMAL_THRESHOLDS.maxTimeToExpiry = 48 * Scale

-----------------------------------------------------------------------------
(* The passes one after another, checked under SpecSerial, and the status a  *)
(* pass leaves, checked under Spec.                                          *)

\* C26: when evaluation cycles do not overlap, for every cohort any two
\* successive recorded alert instants (lastAlertTime updates) are at least
\* cooldownHours hours apart, for a cooldown value that stays constant: a
\* cohort cannot trigger another dispatched alert before the minimum elapsed
\* time has passed.
C26_RecordsSpacedByCooldown ==
  /\ \A i \in DOMAIN delivered, j \in DOMAIN delivered :
       i < j /\ delivered[i].expiry = delivered[j].expiry =>
         HoursOf(delivered[j].at - delivered[i].at) >= cooldownHours * Scale
  /\ \A e \in DOMAIN lastAlertTime :
       \E i \in DOMAIN delivered :
         /\ delivered[i].expiry = e /\ delivered[i].at = lastAlertTime[e]
         /\ \A j \in DOMAIN delivered :
              delivered[j].expiry = e => delivered[j].at <= lastAlertTime[e]

\* C26 witness: under the default cooldown a cohort's alert was recorded
\* twice, the second time by a later pass
C26_Witness ==
  /\ cooldownHours = DefaultCooldownHours
  /\ NoPassInProgress
  /\ \E i \in DOMAIN delivered, j \in DOMAIN delivered :
       /\ i < j
       /\ delivered[i].expiry = delivered[j].expiry
       /\ lastAlertTime[delivered[j].expiry] = delivered[j].at

\* the message of the error fetchOptionsData throws on a response that is
\* not ok
FetchError == "Deribit API error: 500"

\* C28: if fetching the options data fails in a monitoring cycle, the cycle
\* dispatches no email, leaves the cooldown map and the alert history
\* unchanged, records lastCheck and the error message in the monitor status,
\* and rethrows the error to its caller; a failure of the spot-price fetch
\* alone does not abort the advanced cycle.
C28_FailedFetchRecordsAndRethrows ==
  [][/\ \A c \in Cycles :
          FetchFail(c) =>
            /\ delivered' = delivered
            /\ lastAlertTime' = lastAlertTime
            /\ alertHistory' = alertHistory
            /\ monitorStatus'.lastCheck = Num(now)
            /\ monitorStatus'.error = [tag |-> "str", v |-> FetchError]
            /\ FetchError \in thrown'
            /\ cycles'[c].pc = "idle"
     /\ \A c \in Cycles, feed \in FeedResults :
          feed.ethPrice = JsNull /\ FetchOk(c, feed.options, feed.ethPrice) =>
            /\ thrown' = thrown
            /\ monitorStatus'.error = monitorStatus.error
            /\ \/ cycles'[c].pc = "sending"
               \/ /\ cycles'[c].pc = "idle"
                  /\ monitorStatus'.optionsChecked = Len(feed.options)
                  /\ monitorStatus'.ethPrice = JsNull]_vars

\* C28 witness: after an alert was dispatched and recorded, a later pass has
\* just failed on its fetch
C28_Witness ==
  /\ FetchError \in thrown
  /\ monitorStatus.error = [tag |-> "str", v |-> FetchError]
  /\ monitorStatus.lastCheck = Num(now)
  /\ now > StartInstant
  /\ delivered # <<>>
  /\ \A i \in DOMAIN delivered : delivered[i].at < now
  /\ Len(alertHistory) = Len(delivered)

\* C29: updateMonitorStatus only overwrites the fields it is given: a cycle
\* that completes successfully after a failed cycle leaves
\* monitorStatus.error unchanged, and a failed cycle leaves optionsChecked,
\* irregularitiesFound, emailsSent and checkDuration at their previous
\* values.
C29_StatusKeepsFieldsNotGiven ==
  [][IF \E c \in Cycles : FetchFail(c)
     THEN /\ monitorStatus'.optionsChecked = monitorStatus.optionsChecked
          /\ monitorStatus'.irregularitiesFound
               = monitorStatus.irregularitiesFound
          /\ monitorStatus'.emailsSent = monitorStatus.emailsSent
          /\ monitorStatus'.checkDuration = monitorStatus.checkDuration
     ELSE monitorStatus'.error = monitorStatus.error]_vars

\* C29 witness: a pass has completed with an email sent, at an instant after
\* the one at which a pass failed, and the error is still in the status
C29_Witness ==
  /\ monitorStatus.error = [tag |-> "str", v |-> FetchError]
  /\ monitorStatus.emailsSent > 0
  /\ monitorStatus.optionsChecked > 0
  /\ monitorStatus.lastCheck = Num(now)
  /\ NoPassInProgress

-----------------------------------------------------------------------------
(* The alert history, checked under SpecHistory against the log of the       *)
(* recordAlertSent calls.                                                    *)

\* C30: after any sequence of recordAlertSent calls the alert history holds
\* at most 100 entries, namely the most recent ones in dispatch order (the
\* oldest is dropped first), and getAlertHistory returns at most the last 50
\* of them without modifying the history.
C30_HistoryKeepsLatestHundred ==
  LET n == Len(delivered)
      k == Len(alertHistory)
  IN /\ k = Min(n, 100)
     /\ \A i \in 1..k :
          /\ alertHistory[i].expiryDate = delivered[n - k + i].expiry
          /\ alertHistory[i].timestamp = delivered[n - k + i].at
     /\ stateOut.call = "getAlertHistory" =>
          LET m == Len(stateOut.history)
          IN /\ m = Min(k, 50)
             /\ \A i \in 1..m : stateOut.history[i] = alertHistory[k - m + i]

\* C30 witness: more calls than the history holds, and getAlertHistory has
\* returned the last 50 of the 100 entries kept
C30_Witness ==
  /\ Len(delivered) > 100
  /\ Len(alertHistory) = 100
  /\ alertHistory[1].timestamp > delivered[1].at
  /\ stateOut.call = "getAlertHistory"
  /\ Len(stateOut.history) = 50
  /\ stateOut.history[50].timestamp = delivered[Len(delivered)].at

====
